---- MODULE Spec2Model ----
(***************************************************************************)
(* Model of shell/impala_shell/impala_client.py: the RPC dispatchers       *)
(* (_do_hs2_rpc, _do_beeswax_rpc) and the query operations built on them   *)
(* (connect, is_connected, close_connection, execute_query, fetch,         *)
(* wait_to_finish, close_query, close_dml, cancel_query, get_query_state,  *)
(* the logs, the profile, the summary) for the three client classes.       *)
(*                                                                         *)
(* One public operation runs at a time (op), except that the callback of   *)
(* wait_to_finish may call another one while wait_to_finish is suspended   *)
(* (wait.outer).  An operation that dispatches an RPC sets up the          *)
(* dispatcher frame (rpc); every network attempt is one step whose outcome *)
(* is chosen by the environment; the step that ends the dispatcher also    *)
(* runs the rest of the operation (status check, handle update, finally    *)
(* clause) up to the next RPC, the callback of wait_to_finish, or a sleep  *)
(* of wait_to_finish or of _populate_query_options.  The signal handler    *)
(* may set the cancel flag between any two steps.                          *)
(***************************************************************************)
EXTENDS Naturals, Integers, Sequences, FiniteSets, TLC

\* ------------------------------------------------------------------ bounds
MaxHandles == 1
MaxConnectTries == 4
MaxFetches == 2
MaxPolls == 2
MaxRows == 9
MaxNullBytes == 2
MaxIdOffset == 31
MaxRequests == 9

\* ------------------------------------------------------- program constants
min_sleep_interval == 1

Clients == {"ImpalaHS2Client", "StrictHS2Client", "ImpalaBeeswaxClient"}

HandleIds == 1..MaxHandles
\* The handle of the "set all" query of _populate_query_options.
SetAllHandle == MaxHandles + 1
None == 0

\* TStatusCode values an HS2 response may carry.
StatusCodes == {"SUCCESS_STATUS", "STILL_EXECUTING_STATUS", "ERROR_STATUS",
                "INVALID_HANDLE_STATUS"}

\* TOperationState values reported by GetOperationStatus / get_state.
OperationStates == {"RUNNING_STATE", "FINISHED_STATE", "ERROR_STATE", "CANCELED_STATE"}

\* Clock readings of wait_to_finish in tenths of a second: the duration of
\* the get_query_state call of one poll (rpc_time), and the time since
\* loop_start that _get_sleep_interval finds after it.
RpcTimes == {0, 1, 5}
ElapsedTimes == {5, 99, 100, 599, 600}

\* Values of the Retry-After header of an HttpError ("none": header absent,
\* "x": not an integer).
RetryAfterHeaders == {"none", "x", "0", "5"}

VARIABLES
  client,                   \* the client class in use
  use_http_base_transport,  \* self.use_http_base_transport
  connect_max_tries,        \* self.connect_max_tries
  connected,                \* self.connected
  session_handle,           \* self.session_handle is not None
  is_query_cancelled,       \* self.is_query_cancelled
  current_query_handle,     \* self._current_query_handle (None = 0)
  handles,                  \* the query handles handed out by execute_query
  op,                       \* the public operation in progress
  rpc,                      \* the dispatcher frame of the current/last RPC
  last,                     \* outcome of the last completed public operation
  prev,                     \* outcome of the one before
  wait,                     \* the polling loop of wait_to_finish
  default_query_options,    \* the keys of self.default_query_options
  request_num,              \* self._request_num
  current_request_id,       \* self._current_request_id
  calc                      \* a helper function called on its own

vars == <<client, use_http_base_transport, connect_max_tries, connected,
          session_handle, is_query_cancelled, current_query_handle, handles,
          op, rpc, last, prev, wait, default_query_options, request_num,
          current_request_id, calc>>

config == <<client, use_http_base_transport, connect_max_tries>>

\* ------------------------------------------------------------ pure helpers

max_tries_of_any_transport(http, cmt) == cmt

\* ImpalaHS2Client.__init__: retries are enabled only for hs2-http.
max_tries_of(http, cmt) == IF http THEN cmt ELSE 1

max_tries == max_tries_of(use_http_base_transport, connect_max_tries)

get_sleep_interval_for_retries_off(num_tries) == min_sleep_interval * num_tries

\* ImpalaHS2Client._get_sleep_interval_for_retries
get_sleep_interval_for_retries(num_tries) == min_sleep_interval * (num_tries - 1)

\* ImpalaHS2Client._is_hs2_nonerror_status (SUCCESS_WITH_INFO_STATUS behaves as
\* SUCCESS_STATUS everywhere in the client and is not drawn separately).
is_hs2_nonerror_status(status_code) ==
  status_code \in {"SUCCESS_STATUS", "SUCCESS_WITH_INFO_STATUS", "STILL_EXECUTING_STATUS"}

\* int(retry_after) of the Retry-After header; -1 stands for ValueError.
parse_int(s) == CASE s = "0" -> 0 [] s = "5" -> 5 [] OTHER -> -1


\* --------------------------------------------------------- dispatcher frame

\* No attempt has failed yet; otherwise the most recent failure: the exception
\* of rpc(rpc_input), the t.type of a TApplicationException, the value of the
\* cancel flag at that moment and what the loop did then.
NoFail == [kind |-> "none", detail |-> "", cancelled |-> FALSE, then |-> "none"]

\* No sleep between attempts yet; otherwise the most recent one: its length,
\* the Retry-After header of the failure before it ("none" when there was no
\* header) and the number of the attempt it precedes.
NoSleep == [secs |-> 0, hdr |-> "n/a", before |-> 0]

\* self._request_num is <<k>> when it is k; a specification that does not
\* follow the numbering of the calls leaves it out, as <<>>.  A request id
\* "{base}-{k}" is <<"base", k>>; <<>> when none is set, or known.
Unnumbered == <<>>
NoId == <<>>

\* _do_hs2_rpc, line 1046: self._request_num += 1.
next_request_num(n) == IF n = Unnumbered THEN Unnumbered ELSE <<n[1] + 1>>

\* _do_hs2_rpc, line 1047: "{0}-{1}".format(self._base_request_id,
\* self._request_num); the base is the uuid of the client instance.
format_request_id(n) == IF n = Unnumbered THEN NoId ELSE <<"base", n[1]>>

\* No RPC has been dispatched yet.  Of a dispatched call also the request id
\* it was given (request_id) and the X-Request-Id header its latest attempt
\* carried (sent_id).
NoRpc == [name |-> "none", retry_on_error |-> FALSE, suppress |-> FALSE,
          num_tries |-> 0, max_tries |-> 0, attempts |-> 0, sleep |-> NoSleep,
          only_transport |-> TRUE, live |-> FALSE, state |-> "none", exc |-> "none",
          resp |-> "none", fail |-> NoFail, request_id |-> NoId, sent_id |-> NoId]

NewFrame_always_retry(name, retry_on_error, suppress, smt) ==
  [NoRpc EXCEPT !.name = name, !.retry_on_error = retry_on_error,
                !.suppress = suppress, !.num_tries = 1,
                !.max_tries = smt,
                !.live = TRUE, !.state = "running"]

\* _do_hs2_rpc, lines 1049-1052: the frame at the top of the retry loop.
\* smt is self.max_tries.
NewFrame(name, retry_on_error, suppress, smt) ==
  [NoRpc EXCEPT !.name = name, !.retry_on_error = retry_on_error,
                !.suppress = suppress, !.num_tries = 1,
                !.max_tries = IF retry_on_error THEN smt ELSE 1,
                !.live = TRUE, !.state = "running"]

\* _check_connected raised before the loop: no attempt was made.
DeadFrame(name, retry_on_error, suppress) ==
  [NoRpc EXCEPT !.name = name, !.retry_on_error = retry_on_error,
                !.suppress = suppress, !.state = "raised",
                !.exc = "DisconnectedException"]

\* The result of one pass through the loop body.
Return == [kind |-> "return", exc |-> "none", secs |-> 0, hdr |-> "n/a"]
Raise(exc) == [kind |-> "raise", exc |-> exc, secs |-> 0, hdr |-> "n/a"]
Retry(secs, hdr) == [kind |-> "retry", exc |-> "none", secs |-> secs, hdr |-> hdr]

\* Lines 1090-1097: retry_secs taken from the Retry-After header (0 stands
\* for None as well: both are false in "if retry_secs").
http_retry_secs(will_retry, hdr) ==
  IF will_retry /\ hdr # "none" /\ parse_int(hdr) >= 0 THEN parse_int(hdr) ELSE 0

\* Lines 1114-1117: the sleep before the next attempt.
sleep_before_retry(retry_secs, num_tries) ==
  IF retry_secs # 0 THEN retry_secs ELSE get_sleep_interval_for_retries(num_tries)

hs2_attempt_cancel_always(out, f, cancelled, smt) ==
  LET raise_error == f.num_tries = f.max_tries
  IN  CASE out.kind = "ok" -> Return
        [] f.suppress /\ cancelled -> Raise("QueryCancelledByShellException")
        [] out.kind = "TTransportException" ->
             IF raise_error
             THEN IF out.detail = "socket.error" THEN Raise("socket.error")
                  ELSE Raise("DisconnectedException")
             ELSE Retry(sleep_before_retry(0, f.num_tries), "none")
        [] out.kind = "TApplicationException" ->
             IF out.detail = "UNKNOWN_METHOD" THEN Raise("MissingThriftMethodException")
             ELSE Raise("RPCException(TAPPLICATION_EXCEPTION)")
        [] OTHER ->
             IF raise_error THEN Raise(out.kind)
             ELSE Retry(sleep_before_retry(0, f.num_tries), "none")

hs2_attempt_retry_application(out, f, cancelled, smt) ==
  LET raise_error == f.num_tries = f.max_tries
  IN  CASE out.kind = "ok" -> Return
        [] out.kind = "TTransportException" ->
             IF raise_error
             THEN IF out.detail = "socket.error" THEN Raise("socket.error")
                  ELSE Raise("DisconnectedException")
             ELSE Retry(sleep_before_retry(0, f.num_tries), "none")
        [] out.kind = "TApplicationException" ->
             IF f.suppress /\ cancelled THEN Raise("QueryCancelledByShellException")
             ELSE IF ~raise_error THEN Retry(sleep_before_retry(0, f.num_tries), "none")
             ELSE IF out.detail = "UNKNOWN_METHOD" THEN Raise("MissingThriftMethodException")
             ELSE Raise("RPCException(TAPPLICATION_EXCEPTION)")
        [] OTHER ->
             IF raise_error THEN Raise(out.kind)
             ELSE Retry(sleep_before_retry(0, f.num_tries), "none")

hs2_attempt_all_disconnected(out, f, cancelled, smt) ==
  LET raise_error == f.num_tries = f.max_tries
  IN  CASE out.kind = "ok" -> Return
        [] out.kind = "TApplicationException" ->
             IF f.suppress /\ cancelled THEN Raise("QueryCancelledByShellException")
             ELSE IF out.detail = "UNKNOWN_METHOD" THEN Raise("MissingThriftMethodException")
             ELSE Raise("RPCException(TAPPLICATION_EXCEPTION)")
        [] OTHER ->
             IF raise_error THEN Raise("DisconnectedException")
             ELSE Retry(sleep_before_retry(0, f.num_tries), "none")

\* Variant: a failure other than the three named classes is swallowed on
\* the last attempt as well.
hs2_attempt_swallow_last(out, f, cancelled, smt) ==
  LET raise_error == f.num_tries = f.max_tries
      will_retry == f.retry_on_error /\ smt > 1 /\ f.num_tries < f.max_tries
  IN  CASE out.kind = "ok" -> Return
        [] out.kind = "TTransportException" ->
             IF raise_error
             THEN IF out.detail = "socket.error" THEN Raise("socket.error")
                  ELSE Raise("DisconnectedException")
             ELSE Retry(sleep_before_retry(0, f.num_tries), "none")
        [] out.kind = "TApplicationException" ->
             IF f.suppress /\ cancelled THEN Raise("QueryCancelledByShellException")
             ELSE IF out.detail = "UNKNOWN_METHOD" THEN Raise("MissingThriftMethodException")
             ELSE Raise("RPCException(TAPPLICATION_EXCEPTION)")
        [] out.kind = "HttpError" ->
             IF raise_error THEN Raise("HttpError")
             ELSE Retry(sleep_before_retry(http_retry_secs(will_retry, out.detail),
                                           f.num_tries), out.detail)
        [] OTHER -> Retry(sleep_before_retry(0, f.num_tries), "none")

\* ImpalaHS2Client._do_hs2_rpc, lines 1053-1118: one pass through the retry
\* loop.  out is what rpc(rpc_input) did, f the frame, cancelled the value of
\* self.is_query_cancelled, smt self.max_tries.
hs2_attempt(out, f, cancelled, smt) ==
  LET raise_error == f.num_tries = f.max_tries
      will_retry == f.retry_on_error /\ smt > 1 /\ f.num_tries < f.max_tries
  IN  CASE out.kind = "ok" -> Return
        [] out.kind = "TTransportException" ->
             IF raise_error
             THEN IF out.detail = "socket.error" THEN Raise("socket.error")
                  ELSE Raise("DisconnectedException")
             ELSE Retry(sleep_before_retry(0, f.num_tries), "none")
        [] out.kind = "TApplicationException" ->
             IF f.suppress /\ cancelled THEN Raise("QueryCancelledByShellException")
             ELSE IF out.detail = "UNKNOWN_METHOD" THEN Raise("MissingThriftMethodException")
             ELSE Raise("RPCException(TAPPLICATION_EXCEPTION)")
        [] out.kind = "HttpError" ->
             IF raise_error THEN Raise("HttpError")
             ELSE Retry(sleep_before_retry(http_retry_secs(will_retry, out.detail),
                                           f.num_tries), out.detail)
        [] OTHER ->
             IF raise_error THEN Raise(out.kind)
             ELSE Retry(sleep_before_retry(0, f.num_tries), "none")

\* ImpalaBeeswaxClient._do_beeswax_rpc, lines 1455-1530: the single attempt.
\* A TStatus with error messages raises RPCException inside the try block,
\* where the final "except Exception" clause catches it again.
beeswax_attempt(out, f, cancelled, smt) ==
  LET suppressed == f.suppress /\ cancelled
  IN  CASE out.kind = "ok" ->
             IF out.detail = "TStatus_ERROR_msgs"
             THEN IF suppressed THEN Raise("QueryCancelledByShellException")
                  ELSE Raise("Exception")
             ELSE Return
        [] out.kind = "QueryNotFoundException" ->
             IF suppressed THEN Raise("QueryCancelledByShellException")
             ELSE Raise("QueryStateException")
        [] out.kind = "BeeswaxException" ->
             IF suppressed THEN Raise("QueryCancelledByShellException")
             ELSE Raise("RPCException")
        [] out.kind = "TTransportException" ->
             IF out.detail = "socket.error" THEN Raise("socket.error")
             ELSE Raise("DisconnectedException")
        [] out.kind = "TApplicationException" ->
             IF suppressed THEN Raise("QueryCancelledByShellException")
             ELSE IF out.detail = "UNKNOWN_METHOD" THEN Raise("MissingThriftMethodException")
             ELSE Raise("RPCException")
        [] OTHER ->
             IF suppressed THEN Raise("QueryCancelledByShellException")
             ELSE IF out.detail = "BeeswaxException" THEN Raise("RPCException")
             ELSE IF out.detail = "QueryNotFoundException" THEN Raise("QueryStateException")
             ELSE Raise("Exception")

\* _do_beeswax_rpc, lines 1457-1466: the RpcStatus returned with the value.
beeswax_rpc_status(out) == IF out.detail = "TStatus_ERROR" THEN "ERROR" ELSE "OK"

\* The frame after one pass of the loop with result r: the loop variables
\* (num_tries), and what is remembered of the call: the number of attempts,
\* whether all of them failed in the transport, the last failure with the
\* value of the cancel flag at that moment, the sleep before the next
\* attempt, the status of the response.
frame_after(f, out, r, cancelled) ==
  LET k == IF out.kind = "TTransportException" /\ out.detail = "socket.error"
           THEN "TTransportException(socket.error)" ELSE out.kind
      g == [f EXCEPT !.attempts = @ + 1,
                     !.only_transport = @ /\ out.kind = "TTransportException",
                     !.fail = IF out.kind = "ok" /\ r.kind = "return" THEN @
                              ELSE [kind |-> k,
                                    detail |-> IF out.kind = "TApplicationException"
                                               THEN out.detail ELSE "",
                                    cancelled |-> cancelled,
                                    then |-> r.kind]]
  IN  CASE r.kind = "return" ->
             [g EXCEPT !.state = "returned", !.sleep = NoSleep, !.fail = NoFail,
                       !.resp = IF out.status # "none" THEN out.status
                                ELSE beeswax_rpc_status(out)]
        [] r.kind = "raise"  ->
             [g EXCEPT !.state = "raised", !.exc = r.exc, !.sleep = NoSleep]
        [] OTHER -> [g EXCEPT !.num_tries = @ + 1,
                              !.sleep = [secs |-> r.secs, hdr |-> r.hdr,
                                         before |-> f.num_tries + 1]]

\* ------------------------------------------------------------ client state

\* A slot of the handle table before execute_query has returned it.
NoHandle == [made |-> FALSE, is_closed |-> FALSE, hasResultSet |-> FALSE,
             schema |-> FALSE, gen |-> "none", ind |-> FALSE, nrows |-> 0,
             yielded |-> <<>>, fetches |-> 0]

\* How _populate_query_options ended inside connect: not run or not ended
\* ("none"), by break ("listed"), or by an exception ("rejected": exc, raised
\* for the RPC rpc in try number tries); and the options the server has
\* reported in the current try of the listing (in the one call of
\* get_default_configuration, for the Beeswax client), in upper case.
NoListing == [state |-> "none", rpc |-> "none", exc |-> "none", tries |-> 0,
              rows |-> {}]

\* execute_query before ExecuteStatement has returned; otherwise the status
\* of its response and the hasResultSet of the handle in it.
NoExec == [status |-> "none", hasResultSet |-> FALSE]

\* No public operation is in progress.  Of an operation in progress: its
\* name, its handle, the RPC it is at (phase), the network attempts of its
\* main and of its other RPCs; of connect and is_connected also the locals of
\* _populate_query_options (num_tries; set_all_handle: "none", or what
\* execute_query returned, with or without a result set; the batches fetched)
\* and the exception that waits for a finally or except clause to end (pend);
\* of execute_query the response of ExecuteStatement (exec); of an operation
\* that runs execute_query the value the cancel flag had when execute_query
\* was entered (was_cancelled); of connect the seconds of the latest sleep
\* between two tries of _populate_query_options (slept).
Idle == [name |-> "idle", h |-> None, phase |-> "none", attempts |-> 0, aux |-> 0,
         tries |-> 0, set_all |-> "none", fetched |-> 0, pend |-> "none",
         listing |-> NoListing, exec |-> NoExec, was_cancelled |-> FALSE,
         slept |-> 0]

NoOp == [op |-> "none", h |-> None, out |-> "none", val |-> "none",
         attempts |-> 0, aux |-> 0, was_closed |-> FALSE, resp |-> "none",
         listing |-> NoListing]

\* No helper function is called on its own; otherwise its name, its
\* arguments and, once it has ended (done), its result.
NoCalc == [name |-> "none", args |-> "none", done |-> FALSE, result |-> "none"]

\* The periodic_callback that the caller gives to wait_to_finish: None, a
\* function that only returns, lambda: client.get_summary(handle), or
\* client.close_connection.
Callbacks == {"none", "returns", "get_summary", "close_connection"}

\* wait_to_finish before its first poll; otherwise the number of polls, the
\* state the last poll reported with the value of the cancel flag then, and,
\* until the next poll is answered, the clock of the pass of the loop: the
\* duration of the RPC of the poll before (rpc_time), the time since
\* loop_start that _get_sleep_interval finds (elapsed) and, once line 310 has
\* run (timed), the time slept.  callback is the periodic_callback, ticks the
\* number of its calls, and outer the call of wait_to_finish while an
\* operation that the callback called is in progress.
NoWait == [polls |-> 0, state |-> "none", cancelled |-> FALSE, timed |-> FALSE,
           rpc_time |-> 0, elapsed |-> 0, slept |-> 0,
           callback |-> "none", ticks |-> 0, outer |-> Idle]

\* The sleep is over.
woken(w) == [w EXCEPT !.timed = FALSE, !.rpc_time = 0, !.elapsed = 0, !.slept = 0]

\* What operation name remembers of the operation l before it: close_query
\* remembers a close_query, and nothing else is remembered.
remember(l, name) ==
  IF l.op = "close_query" /\ name = "close_query" THEN l ELSE NoOp

\* The mutable client state as one value; the operations below map it to
\* the state they leave behind.
M == [connected |-> connected, session_handle |-> session_handle,
      is_query_cancelled |-> is_query_cancelled,
      current_query_handle |-> current_query_handle, handles |-> handles,
      op |-> op, rpc |-> rpc, last |-> last, prev |-> prev, wait |-> wait,
      default_query_options |-> default_query_options,
      request_num |-> request_num, current_request_id |-> current_request_id]

Set(m) ==
  /\ connected' = m.connected
  /\ session_handle' = m.session_handle
  /\ is_query_cancelled' = m.is_query_cancelled
  /\ current_query_handle' = m.current_query_handle
  /\ handles' = m.handles
  /\ op' = m.op
  /\ rpc' = m.rpc
  /\ last' = m.last
  /\ prev' = m.prev
  /\ wait' = m.wait
  /\ default_query_options' = m.default_query_options
  /\ request_num' = m.request_num
  /\ current_request_id' = m.current_request_id
  /\ UNCHANGED <<config, calc>>

IsHS2 == client \in {"ImpalaHS2Client", "StrictHS2Client"}

\* _set_current_query_handle / _clear_current_query_handle (the Beeswax client
\* has neither and never touches the attribute).
set_current_query_handle(m, h) ==
  IF IsHS2 THEN [m EXCEPT !.current_query_handle = h] ELSE m
clear_current_query_handle(m) ==
  IF IsHS2 THEN [m EXCEPT !.current_query_handle = None] ELSE m

\* The periodic_callback of wait_to_finish is running (line 309).
InCallback(m) == m.op.name = "wait_to_finish" /\ m.op.phase = "callback"

\* An operation that the callback called is in progress.
Nested(m) == m.wait.outer.name # "idle"

\* The public operation m.op ends: by returning val, or by raising val.  An
\* operation that the callback of wait_to_finish called ends inside the
\* callback, which ends with it (phase "callback_ended").
finish(m, outc, val) ==
  LET m1 == [m EXCEPT !.last = [op |-> m.op.name, h |-> m.op.h, out |-> outc,
                                val |-> val,
                                attempts |-> m.op.attempts, aux |-> m.op.aux,
                                was_closed |-> IF m.op.h = None THEN FALSE
                                               ELSE handles[m.op.h].is_closed,
                                resp |-> IF m.rpc.state = "returned" THEN m.rpc.resp
                                         ELSE "none",
                                listing |-> m.op.listing],
                      !.op = Idle]
  IN  IF Nested(m)
      THEN [m1 EXCEPT !.op = [m.wait.outer EXCEPT !.phase = "callback_ended"],
                      !.wait.outer = Idle]
      ELSE m1

returns(m, val) == finish(m, "return", val)
raises(m, exc) == finish(m, "raise", exc)

\* The caller enters operation name on handle h; no RPC of it is dispatched
\* yet, and the operation before it becomes the previous one.
begin(m, name, h) ==
  [m EXCEPT !.op = [Idle EXCEPT !.name = name, !.h = h, !.phase = "main"],
            !.rpc = NoRpc, !.prev = remember(m.last, name), !.last = NoOp,
            !.wait = IF InCallback(m) THEN [@ EXCEPT !.outer = m.op] ELSE NoWait]

\* Variant: the status check does not look at the cancel flag.
check_hs2_rpc_status_ignore_cancel(status, cancelled) ==
  CASE status = "ERROR_STATUS" -> "RPCException(SERVER_ERROR)"
    [] status = "INVALID_HANDLE_STATUS" -> "QueryStateException"
    [] OTHER -> "ok"

\* ImpalaHS2Client._check_hs2_rpc_status: "ok", or the exception raised.
check_hs2_rpc_status(status, cancelled) ==
  CASE status = "ERROR_STATUS" ->
         IF cancelled THEN "QueryCancelledByShellException"
         ELSE "RPCException(SERVER_ERROR)"
    [] status = "INVALID_HANDLE_STATUS" ->
         IF cancelled THEN "QueryCancelledByShellException"
         ELSE "QueryStateException"
    [] OTHER -> "ok"

\* --------------------------------------------- what the server may answer

Ok(detail, status, flag, nrows) ==
  [kind |-> "ok", detail |-> detail, status |-> status, flag |-> flag, nrows |-> nrows]
Fail(kind, detail) ==
  [kind |-> kind, detail |-> detail, status |-> "none", flag |-> FALSE, nrows |-> 0]

\* Responses of the HS2 service.  flag is hasResultSet (ExecuteStatement),
\* hasMoreRows (FetchResults), "dml_result is set" (CloseImpalaOperation);
\* nrows the number of rows of a fetched batch; detail the operationState.
Hs2OkOutcomes(name) ==
  CASE name = "ExecuteStatement" ->
         {Ok("", st, fl, 0) : st \in StatusCodes, fl \in BOOLEAN}
    [] name = "FetchResults" ->
         {Ok("", st, more, n) : st \in StatusCodes, more \in BOOLEAN, n \in 0..1}
    [] name = "CloseImpalaOperation" ->
         {Ok("", st, fl, 0) : st \in StatusCodes, fl \in BOOLEAN}
    [] name = "GetOperationStatus" ->
         {Ok(os, st, FALSE, 0) : os \in OperationStates, st \in StatusCodes}
    [] OTHER -> {Ok("", st, FALSE, 0) : st \in StatusCodes}

\* Exceptions rpc(rpc_input) may raise in _do_hs2_rpc; HttpError comes from
\* ImpalaHttpClient only.
Hs2FailOutcomes ==
  {Fail("TTransportException", d) : d \in {"", "socket.error"}}
  \cup {Fail("TApplicationException", d) : d \in {"UNKNOWN_METHOD", "INTERNAL_ERROR"}}
  \cup {Fail("Exception", "")}
  \cup (IF use_http_base_transport
        THEN {Fail("HttpError", hdr) : hdr \in RetryAfterHeaders} ELSE {})

\* Results of the Beeswax service; only Cancel returns a TStatus.
BeeswaxOkOutcomes(name) ==
  CASE name = "Cancel" ->
         {Ok(d, "none", FALSE, 0) : d \in {"TStatus_OK", "TStatus_ERROR", "TStatus_ERROR_msgs"}}
    [] name = "query" -> {Ok("", "none", fl, 0) : fl \in BOOLEAN}
    [] name = "fetch" -> {Ok("", "none", more, n) : more \in BOOLEAN, n \in 0..1}
    [] name = "get_state" -> {Ok(os, "none", FALSE, 0) : os \in OperationStates}
    [] name = "get_default_configuration" ->
         {Ok("", "none", FALSE, n) : n \in 0..1}
    [] OTHER -> {Ok("", "none", FALSE, 0)}

BeeswaxFailOutcomes ==
  {Fail("QueryNotFoundException", ""), Fail("BeeswaxException", "")}
  \cup {Fail("TTransportException", d) : d \in {"", "socket.error"}}
  \cup {Fail("TApplicationException", d) : d \in {"UNKNOWN_METHOD", "INTERNAL_ERROR"}}
  \cup {Fail("Exception", d) : d \in {"", "BeeswaxException", "QueryNotFoundException"}}

\* _get_transport / _get_http_transport (line 208-212) give an open
\* transport or raise.
TransportOutcomes ==
  {Ok("", "none", FALSE, 0), Fail("TTransportException", ""), Fail("Exception", "")}

Outcomes(name) ==
  CASE name = "open_transport" -> TransportOutcomes
    [] IsHS2 -> Hs2OkOutcomes(name) \cup Hs2FailOutcomes
    [] OTHER -> BeeswaxOkOutcomes(name) \cup BeeswaxFailOutcomes

\* ------------------------------------------------- an exception propagates

\* fetch: the generator ends by an exception (finally clause, line 856).
fetch_raise(m, exc) ==
  raises([clear_current_query_handle(m) EXCEPT !.handles[m.op.h].gen = "failed"], exc)

\* execute_query: ExecuteStatement is outside the try block, the metadata RPC
\* inside it (lines 767, 773-788).
execute_query_raise(m, exc) ==
  IF m.op.phase = "metadata" THEN raises(clear_current_query_handle(m), exc)
  ELSE raises(m, exc)

\* _close_transport
close_transport(m) == [m EXCEPT !.connected = FALSE]

\* ImpalaHS2Client.close_connection, lines 682-686: the exception of the
\* CloseSession RPC is logged, then the session and the transport go.
close_connection_end(m) ==
  returns(close_transport([m EXCEPT !.session_handle = FALSE]), "None")

\* The finally clauses of close_query, close_dml, cancel_query and
\* get_query_state; StrictHS2Client.close_dml propagates what close_query raises.
query_op_raise(m, exc) == raises(clear_current_query_handle(m), exc)

RECURSIVE on_raise(_, _)

\* _do_hs2_rpc, lines 1046-1047: the next request number and the id made of
\* it; the Beeswax dispatcher has neither.
number_request(m) ==
  IF IsHS2
  THEN [m EXCEPT !.request_num = next_request_num(@),
                 !.current_request_id = format_request_id(next_request_num(m.request_num))]
  ELSE m

\* get_custom_http_headers, lines 661-663: the X-Request-Id header of a request
\* sent now over the HTTP transport (http_tracing is on, its default).
x_request_id(m) ==
  IF m.request_num # Unnumbered /\ m.current_request_id = NoId
  THEN <<"AssertionError">>   \* line 661: "request id was not set"
  ELSE m.current_request_id

\* Variant: the dispatcher does not look at the connected flag.
dispatch_unchecked(m, name, retry_on_error, suppress) ==
  LET m1 == number_request(m)
  IN  [m1 EXCEPT !.rpc = [NewFrame(name, IsHS2 /\ retry_on_error, suppress, max_tries)
                           EXCEPT !.request_id = m1.current_request_id]]

\* Variant: the call is given the request id of the call before it.
dispatch_same_id(m, name, retry_on_error, suppress) ==
  IF m.connected
  THEN [m EXCEPT !.rpc = [NewFrame(name, IsHS2 /\ retry_on_error, suppress, max_tries)
                           EXCEPT !.request_id = m.current_request_id]]
  ELSE on_raise([m EXCEPT !.rpc = [DeadFrame(name, IsHS2 /\ retry_on_error, suppress)
                                    EXCEPT !.request_id = m.current_request_id]],
                "DisconnectedException")

\* _do_hs2_rpc lines 1046-1052 / _do_beeswax_rpc line 1454: the call gets
\* its request id (HS2), then _check_connected, then the first attempt is due.
dispatch(m, name, retry_on_error, suppress) ==
  LET m1 == number_request(m)
  IN  IF m1.connected
      THEN [m1 EXCEPT !.rpc = [NewFrame(name, IsHS2 /\ retry_on_error, suppress,
                                        max_tries)
                                 EXCEPT !.request_id = m1.current_request_id]]
      ELSE on_raise([m1 EXCEPT !.rpc = [DeadFrame(name, IsHS2 /\ retry_on_error,
                                                  suppress)
                                          EXCEPT !.request_id = m1.current_request_id]],
                    "DisconnectedException")

\* ------------------------------------------- connect and is_connected

SessionOps == {"connect", "is_connected"}

\* Calls that do not go through a dispatcher: the creation of the transport
\* in connect (lines 208-212), and get_default_configuration and
\* PingImpalaService of the Beeswax client (lines 1290-1293, 1311-1323).
RawCalls == {"open_transport", "get_default_configuration", "PingImpalaService"}

raw_call(m, name) == [m EXCEPT !.rpc = NewFrame(name, FALSE, FALSE, 1)]

\* What a call that is not dispatched does with the outcome out: the except
\* clauses of ImpalaBeeswaxClient._ping_impala_service, lines 1314-1321;
\* nothing is caught around the other two.
raw_attempt(out, name) ==
  CASE out.kind = "ok" -> Return
    [] name = "PingImpalaService" /\ out.kind = "TApplicationException" ->
         IF out.detail = "UNKNOWN_METHOD" THEN Raise("MissingThriftMethodException")
         ELSE Raise("TApplicationException")
    [] name = "PingImpalaService" /\ out.kind = "TTransportException" ->
         IF out.detail = "socket.error" THEN Raise("socket.error")
         ELSE Raise("DisconnectedException")
    [] OTHER -> Raise(out.kind)

\* Variant: the session handle outlives the close_connection of an except
\* clause.
session_closed_keep_session(m0) ==
  LET m == close_transport(m0)
  IN  IF m.op.name = "connect" THEN raises(m, m.op.pend) ELSE returns(m, "False")

\* close_connection inside connect or is_connected has ended (lines 685-686,
\* 1309): connect raises the exception that made it close (line 226),
\* is_connected returns False (lines 246-254).
session_closed(m0) ==
  LET m == close_transport([m0 EXCEPT !.session_handle = FALSE])
  IN  IF m.op.name = "connect" THEN raises(m, m.op.pend) ELSE returns(m, "False")

\* close_connection in the except clause of connect (lines 223-226) and of
\* is_connected (lines 245-254), up to the CloseSession RPC (lines 670-680).
session_close(m0, exc) ==
  LET m == [m0 EXCEPT !.op.phase = "cleanup", !.op.pend = exc]
  IN  IF IsHS2 /\ m.session_handle THEN dispatch(m, "CloseSession", FALSE, TRUE)
      ELSE session_closed(m)

\* connect, line 222 (_ping_impala_service: lines 731-739, 1241-1242,
\* 1311-1323) and is_connected, line 243.
session_ping(m0) ==
  LET m == [m0 EXCEPT !.op.phase = "ping"]
  IN  CASE client = "StrictHS2Client" ->
             returns(m, IF m.op.name = "connect" THEN "version" ELSE "True")
        [] client = "ImpalaHS2Client" -> dispatch(m, "PingImpalaHS2Service", TRUE, TRUE)
        [] OTHER -> raw_call(m, "PingImpalaService")

\* is_connected, lines 245-254: TException, RPCException and
\* DisconnectedException are caught, anything else propagates.  The
\* exceptions that thrift generates for the Beeswax service, BeeswaxException
\* and QueryNotFoundException, are TExceptions.
is_connected_catches(exc) ==
  exc \in {"DisconnectedException", "RPCException(TAPPLICATION_EXCEPTION)",
           "RPCException(SERVER_ERROR)", "RPCException", "TApplicationException",
           "TTransportException", "BeeswaxException", "QueryNotFoundException"}

\* Variant: connect has no except clause.
session_except_no_close(m, exc) == raises(m, exc)

\* An exception reaches the except clause of connect or of is_connected.
session_except(m, exc) ==
  IF m.op.name = "connect" \/ is_connected_catches(exc) THEN session_close(m, exc)
  ELSE raises(m, exc)

\* The option that the rows of a listing describe, as the server spells it.
OptionName == "abort_on_error"

\* name.upper(), lines 705 and 1300.
upper(name) == IF name = "abort_on_error" THEN "ABORT_ON_ERROR" ELSE name

\* The name column of a batch of "set all" with n rows, and the keys of a
\* list of n options of get_default_configuration.
option_rows(n) == [i \in 1..n |-> OptionName]

\* The options that rows adds to a map with the keys options, in upper case
\* (lines 704-705, 1299-1300).
store_options(options, rows) == options \cup {upper(rows[i]) : i \in 1..Len(rows)}

\* Variant: the map is not emptied before the listing is fetched.
reset_options_keep(m) == m

\* _populate_query_options, lines 701-702: the maps are emptied.
reset_options(m) == [m EXCEPT !.default_query_options = {}]

\* The rows of a batch of the listing are stored (lines 703-706).
populate_store(m, out) ==
  [m EXCEPT !.default_query_options = store_options(@, option_rows(out.nrows)),
            !.op.listing.rows = store_options(@, option_rows(out.nrows))]

\* ImpalaBeeswaxClient._open_session, lines 1294-1305: the options that
\* get_default_configuration returned are stored.
beeswax_store(m, out) ==
  [m EXCEPT !.default_query_options = store_options(@, option_rows(out.nrows)),
            !.op.listing.rows = store_options({}, option_rows(out.nrows))]

\* _populate_query_options, lines 700-701: execute_query("set all", {}) up to
\* the ExecuteStatement RPC (lines 758-767).
populate_pass(m0) ==
  LET m == [clear_current_query_handle(m0) EXCEPT
              !.op.listing.rows = {},
              !.is_query_cancelled = FALSE,
              !.op.was_cancelled = m0.is_query_cancelled, !.op.phase = "set_all",
              !.op.set_all = "none", !.op.fetched = 0, !.op.pend = "none"]
  IN  dispatch(m, "ExecuteStatement", FALSE, TRUE)

\* _populate_query_options after its finally clause (lines 723-728): the loop
\* is left by break, an exception goes on, or the client sleeps before the
\* next try.
populate_after(m, pend) ==
  CASE pend = "none" -> session_ping(m)
    [] pend = "retry" ->
         [m EXCEPT !.op.phase = "set_all_sleep",
                   !.op.slept = get_sleep_interval_for_retries(m.op.tries)]
    [] OTHER -> session_except(m, pend)

\* _populate_query_options, lines 728-729 and 692: time.sleep has returned,
\* and the next try begins.
populate_next(m) == populate_pass([m EXCEPT !.op.tries = @ + 1])

\* The finally clause of _populate_query_options, lines 723-725:
\* close_query(set_all_handle) up to its RPC (lines 909-920).
populate_finally(m0, pend) ==
  LET m == [m0 EXCEPT !.op.pend = pend]
  IN  IF m.op.set_all = "none" THEN populate_after(m, pend)
      ELSE dispatch([set_current_query_handle(m, SetAllHandle) EXCEPT
                       !.op.phase = "set_all_close"],
                    "CloseImpalaOperation", TRUE, TRUE)

\* Variant: an exception that is not retried ends the loop as a break does.
populate_except_tolerant(m, exc) ==
  LET raise_error == m.op.tries = max_tries
      fatal == exc \in {"QueryCancelledByShellException", "MissingThriftMethodException",
                        "QueryStateException", "RPCException(TAPPLICATION_EXCEPTION)",
                        "RPCException(SERVER_ERROR)"}
  IN  IF fatal \/ raise_error
      THEN populate_finally([m EXCEPT !.op.listing =
                                        [state |-> "rejected", rpc |-> m.rpc.name,
                                         exc |-> exc, tries |-> m.op.tries,
                                         rows |-> m.op.listing.rows]], "none")
      ELSE populate_finally(m, "retry")

\* The except clauses of _populate_query_options, lines 708-722: what is
\* raised again at once, and what only on the last try.
populate_except(m, exc) ==
  LET raise_error == m.op.tries = max_tries
      fatal == exc \in {"QueryCancelledByShellException", "MissingThriftMethodException",
                        "QueryStateException", "RPCException(TAPPLICATION_EXCEPTION)",
                        "RPCException(SERVER_ERROR)"}
  IN  IF fatal \/ raise_error
      THEN populate_finally([m EXCEPT !.op.listing =
                                        [state |-> "rejected", rpc |-> m.rpc.name,
                                         exc |-> exc, tries |-> m.op.tries,
                                         rows |-> m.op.listing.rows]], exc)
      ELSE populate_finally(m, "retry")

\* for rows in self.fetch(set_all_handle), lines 703-706: the generator up to
\* its FetchResults RPC (lines 828-845); it asserts that the handle has a
\* result set (line 830).
populate_fetch(m) ==
  IF m.op.set_all = "resultset"
  THEN dispatch([set_current_query_handle(m, SetAllHandle) EXCEPT
                   !.op.phase = "set_all_fetch"], "FetchResults", FALSE, TRUE)
  ELSE populate_except(m, "AssertionError")

\* _populate_query_options, lines 688-691 (the strict client's does nothing,
\* lines 1253-1254), then the rest of connect.
populate_query_options(m) ==
  IF client = "ImpalaHS2Client" THEN populate_pass([m EXCEPT !.op.tries = 1])
  ELSE session_ping(m)

\* connect after the transport is open, lines 219-221: _open_session up to
\* its first call (lines 632-641, 1281-1293).
open_session(m0) ==
  LET m == [m0 EXCEPT !.connected = TRUE]
  IN  IF IsHS2
      THEN dispatch([m EXCEPT !.op.phase = "open_session"], "OpenSession", TRUE, TRUE)
      ELSE raw_call([m EXCEPT !.op.phase = "default_configuration"],
                    "get_default_configuration")

\* connect after its first close_connection (lines 206, 685-686, 1309): the
\* transport is created next (lines 208-212).
connect_closed(m0) ==
  LET m == close_transport([m0 EXCEPT !.session_handle = FALSE])
  IN  raw_call([m EXCEPT !.op.phase = "transport"], "open_transport")

\* A call of connect or is_connected returned out.
session_return(m, out) ==
  LET e == IF IsHS2 /\ m.rpc.name \notin RawCalls
           THEN check_hs2_rpc_status(out.status, m.is_query_cancelled) ELSE "ok"
      ph == m.op.phase
  IN  CASE ph = "close_old" -> connect_closed(m)
        [] ph = "transport" -> open_session(m)
        [] ph = "default_configuration" -> session_ping(beeswax_store(m, out))
        [] ph = "open_session" ->
             IF e # "ok" THEN session_except(m, e)
             ELSE populate_query_options([m EXCEPT !.session_handle = TRUE])
        [] ph = "set_all" ->
             IF out.status # "SUCCESS_STATUS" THEN populate_except(m, "QueryStateException")
             ELSE IF out.flag
             THEN dispatch([set_current_query_handle(m, SetAllHandle) EXCEPT
                              !.op.phase = "set_all_metadata"],
                           "GetResultSetMetadata", TRUE, TRUE)
             ELSE populate_fetch(reset_options([clear_current_query_handle(m) EXCEPT
                                                  !.op.set_all = "plain"]))
        [] ph = "set_all_metadata" ->
             IF e # "ok" THEN populate_except(clear_current_query_handle(m), e)
             ELSE populate_fetch(reset_options([clear_current_query_handle(m) EXCEPT
                                                  !.op.set_all = "resultset"]))
        [] ph = "set_all_fetch" ->
             IF e # "ok" THEN populate_except(clear_current_query_handle(m), e)
             ELSE IF out.flag
             THEN dispatch([populate_store(m, out) EXCEPT !.op.fetched = @ + 1],
                           "FetchResults", FALSE, TRUE)
             ELSE populate_finally([clear_current_query_handle(populate_store(m, out))
                                      EXCEPT !.op.listing.state = "listed",
                                             !.op.listing.tries = m.op.tries], "none")
        [] ph = "set_all_close" ->
             populate_after(clear_current_query_handle(m), m.op.pend)
        [] ph = "ping" ->
             IF e # "ok" THEN session_except(m, e)
             ELSE returns(m, IF m.op.name = "connect" THEN "version" ELSE "True")
        [] OTHER -> session_closed(m)

\* A call of connect or is_connected raised exc.
session_raise(m, exc) ==
  LET ph == m.op.phase
  IN  CASE ph = "close_old" -> connect_closed(m)
        [] ph = "transport" -> raises(m, exc)
        [] ph = "default_configuration" -> session_ping(m)
        [] ph = "set_all" -> populate_except(m, exc)
        [] ph \in {"set_all_metadata", "set_all_fetch"} ->
             populate_except(clear_current_query_handle(m), exc)
        [] ph = "set_all_close" -> session_except(clear_current_query_handle(m), exc)
        [] ph \in {"open_session", "ping"} -> session_except(m, exc)
        [] OTHER -> session_closed(m)

\* Variant: close_connection has no except clause around CloseSession.
on_raise_close_propagates(m, exc) ==
  CASE m.op.name = "fetch" -> fetch_raise(m, exc)
    [] m.op.name = "execute_query" -> execute_query_raise(m, exc)
    [] m.op.name \in SessionOps -> session_raise(m, exc)
    [] OTHER -> query_op_raise(m, exc)

\* The exception exc leaves the dispatcher inside operation m.op.
on_raise(m, exc) ==
  CASE m.op.name = "fetch" -> fetch_raise(m, exc)
    [] m.op.name = "execute_query" -> execute_query_raise(m, exc)
    [] m.op.name = "close_connection" -> close_connection_end(m)
    [] m.op.name \in SessionOps -> session_raise(m, exc)
    [] OTHER -> query_op_raise(m, exc)

\* ---------------------------------------------------- the dispatcher returns

InfoOps == {"get_runtime_profile", "get_summary", "get_warn_or_error_log"}

\* The RpcStatus / TStatusCode check that follows an RPC: "ok" or the
\* exception to raise.  exc_beeswax is what the Beeswax caller raises on
\* RpcStatus.ERROR.
status_check(m, out, exc_beeswax) ==
  IF IsHS2 THEN check_hs2_rpc_status(out.status, m.is_query_cancelled)
  ELSE IF beeswax_rpc_status(out) # "OK" THEN exc_beeswax ELSE "ok"

Bool(b) == IF b THEN "True" ELSE "False"

close_query_return_keep_open(m, out) ==
  LET ok == IF IsHS2 THEN is_hs2_nonerror_status(out.status)
            ELSE beeswax_rpc_status(out) = "OK"
  IN  returns(clear_current_query_handle(
                [m EXCEPT !.handles[m.op.h].is_closed = ok]), Bool(ok))

\* close_query after the RPC returned: lines 921-924, 1236-1239, 1387-1388.
close_query_return(m, out) ==
  LET ok == IF IsHS2 THEN is_hs2_nonerror_status(out.status)
            ELSE beeswax_rpc_status(out) = "OK"
  IN  returns(clear_current_query_handle(
                [m EXCEPT !.handles[m.op.h].is_closed = TRUE]), Bool(ok))

\* Variant: the handle is marked closed as soon as the RPC has returned.
close_dml_return_close_first(m, out) ==
  LET e == status_check(m, out, "RPCException")
      closed == [m EXCEPT !.handles[m.op.h].is_closed = TRUE]
  IN  CASE client = "StrictHS2Client" ->
             returns(clear_current_query_handle(closed), "(None, None, None)")
        [] e # "ok" -> query_op_raise(closed, e)
        [] client = "ImpalaHS2Client" /\ ~out.flag -> query_op_raise(closed, "RPCException")
        [] OTHER -> returns(clear_current_query_handle(closed), "dml_result")

\* close_dml after the RPC returned: lines 901-907 (ImpalaHS2Client),
\* 1221-1222 (StrictHS2Client, through close_query), 1376-1379 (Beeswax).
close_dml_return(m, out) ==
  LET e == status_check(m, out, "RPCException")
      closed == [m EXCEPT !.handles[m.op.h].is_closed = TRUE]
  IN  CASE client = "StrictHS2Client" ->
             returns(clear_current_query_handle(closed), "(None, None, None)")
        [] e # "ok" -> query_op_raise(m, e)
        [] client = "ImpalaHS2Client" /\ ~out.flag -> query_op_raise(m, "RPCException")
        [] OTHER -> returns(clear_current_query_handle(closed), "dml_result")

\* Variant: cancel_query reports success whatever the status.
cancel_query_return_always_true(m, out) ==
  returns(clear_current_query_handle(m), "True")

\* cancel_query after the RPC returned: lines 939-941, 1397.
cancel_query_return(m, out) ==
  LET ok == IF IsHS2 THEN is_hs2_nonerror_status(out.status)
            ELSE beeswax_rpc_status(out) = "OK"
  IN  returns(clear_current_query_handle(m), Bool(ok))

\* get_query_state after the RPC returned: lines 952-955, 1351-1353.
get_query_state_return(m, out) ==
  IF IsHS2
  THEN LET e == check_hs2_rpc_status(out.status, m.is_query_cancelled)
       IN  IF e # "ok" THEN query_op_raise(m, e)
           ELSE returns(clear_current_query_handle(m), out.detail)
  ELSE IF beeswax_rpc_status(out) # "OK" THEN returns(m, "ERROR_STATE")
       ELSE returns(m, out.detail)

\* The handle execute_query returns: line 771 (hasResultSet as the server
\* set it), 784-785, 1342.
new_handle(hasResultSet) ==
  [NoHandle EXCEPT !.made = TRUE, !.is_closed = FALSE,
                   !.hasResultSet = hasResultSet, !.schema = IsHS2 /\ hasResultSet]

\* Variant: only an error status of ExecuteStatement is refused.
execute_query_return_unless_error(m, out) ==
  LET h == m.op.h
  IN  IF ~IsHS2
      THEN IF beeswax_rpc_status(out) # "OK" THEN raises(m, "RPCException")
           ELSE returns([m EXCEPT !.handles[h] = new_handle(out.flag)], "handle")
      ELSE IF m.op.phase = "main"
      THEN IF ~is_hs2_nonerror_status(out.status) THEN raises(m, "QueryStateException")
           ELSE IF out.flag
           THEN dispatch([set_current_query_handle(m, h) EXCEPT
                            !.op.phase = "metadata",
                            !.op.exec = [status |-> out.status, hasResultSet |-> out.flag]],
                         "GetResultSetMetadata", TRUE, TRUE)
           ELSE returns(clear_current_query_handle(
                          [m EXCEPT !.handles[h] = new_handle(FALSE)]), "handle")
      ELSE LET e == check_hs2_rpc_status(out.status, m.is_query_cancelled)
           IN  IF e # "ok" THEN raises(clear_current_query_handle(m), e)
               ELSE returns(clear_current_query_handle(
                              [m EXCEPT !.handles[h] = new_handle(TRUE)]), "handle")

\* execute_query after ExecuteStatement / query returned (lines 768-780,
\* 1340-1343) and after GetResultSetMetadata returned (lines 781-788).
execute_query_return(m, out) ==
  LET h == m.op.h
  IN  IF ~IsHS2
      THEN IF beeswax_rpc_status(out) # "OK" THEN raises(m, "RPCException")
           ELSE returns([m EXCEPT !.handles[h] = new_handle(out.flag)], "handle")
      ELSE IF m.op.phase = "main"
      THEN IF out.status # "SUCCESS_STATUS" THEN raises(m, "QueryStateException")
           ELSE IF out.flag
           THEN dispatch([set_current_query_handle(m, h) EXCEPT
                            !.op.phase = "metadata",
                            !.op.exec = [status |-> out.status, hasResultSet |-> out.flag]],
                         "GetResultSetMetadata", TRUE, TRUE)
           ELSE returns(clear_current_query_handle(
                          [m EXCEPT !.handles[h] = new_handle(FALSE)]), "handle")
      ELSE LET e == check_hs2_rpc_status(out.status, m.is_query_cancelled)
           IN  IF e # "ok" THEN raises(clear_current_query_handle(m), e)
               ELSE returns(clear_current_query_handle(
                              [m EXCEPT !.handles[h] = new_handle(TRUE)]), "handle")

\* fetch after FetchResults / fetch returned: the status check and the yield
\* (lines 846-852, 1360-1368).  The batch is the next one of the server's
\* cursor; the response (its more-rows indicator, its number of rows) stays
\* in the suspended generator.
fetch_return(m, out) ==
  LET h == m.op.h
      e == status_check(m, out, "RPCException")
      hd == m.handles[h]
  IN  IF e # "ok" THEN fetch_raise(m, e)
      ELSE returns([m EXCEPT !.handles[h] =
                      [hd EXCEPT !.gen = "suspended", !.ind = out.flag,
                                 !.nrows = out.nrows,
                                 !.yielded = Append(@, Len(@) + 1)]], "batch")

info_return_reopen(m, out) ==
  returns(clear_current_query_handle([m EXCEPT !.handles[m.op.h].is_closed = FALSE]),
          "value")

\* get_runtime_profile, get_summary and _get_warn_or_error_log after the RPC
\* returned: lines 967-974, 986-993, 1019-1030 (_check_hs2_rpc_status, then
\* the value), 1400-1411, 1432-1441 (Beeswax: a value for every RpcStatus).
info_return(m, out) ==
  IF IsHS2
  THEN LET e == check_hs2_rpc_status(out.status, m.is_query_cancelled)
       IN  IF e # "ok" THEN query_op_raise(m, e)
           ELSE returns(clear_current_query_handle(m), "value")
  ELSE returns(m, IF beeswax_rpc_status(out) = "OK" THEN "value" ELSE "no value")

get_sleep_interval_inclusive(elapsed) ==
  IF elapsed <= 100 THEN 1
  ELSE IF elapsed <= 600 THEN 5
  ELSE 10

\* ImpalaClient._get_sleep_interval, in tenths of a second.
get_sleep_interval(elapsed) ==
  IF elapsed < 100 THEN 1
  ELSE IF elapsed < 600 THEN 5
  ELSE 10

\* wait_to_finish, lines 310-313, after a poll that took rpc_time and
\* reported a state that is not final: the time to sleep; elapsed is the
\* time since loop_start that _get_sleep_interval finds.
wait_sleep(w, rpc_time, elapsed) ==
  LET sleep_time == get_sleep_interval(elapsed)
      slept == IF rpc_time < sleep_time THEN sleep_time - rpc_time ELSE 0
  IN  [w EXCEPT !.timed = TRUE, !.rpc_time = rpc_time, !.elapsed = elapsed,
                !.slept = slept]

\* wait_to_finish, line 309: periodic_callback is called if the caller gave
\* one (callback); ticks counts its calls.
periodic_callback(w) == IF w.callback # "none" THEN [w EXCEPT !.ticks = @ + 1] ELSE w

\* wait_to_finish: one call of get_query_state (line 298).
wait_poll(m0) ==
  LET m == [m0 EXCEPT !.op.phase = "main"]
  IN  IF IsHS2
      THEN dispatch(set_current_query_handle(m, m.op.h), "GetOperationStatus",
                    TRUE, TRUE)
      ELSE dispatch(m, "get_state", FALSE, TRUE)

\* wait_to_finish, lines 310-313: the client sleeps if the poll took less
\* than the interval, else it polls again at once.
wait_pause(m0) ==
  LET m == [m0 EXCEPT !.wait = wait_sleep(@, @.rpc_time, @.elapsed)]
  IN  IF m.wait.slept > 0 THEN [m EXCEPT !.op.phase = "sleep"] ELSE wait_poll(m)

\* wait_to_finish, line 309, after a poll that reported a state that is not
\* final; t is <<rpc_time, elapsed>>: the callback is entered, if there is
\* one.
wait_callback(m0, t) ==
  LET m == [m0 EXCEPT !.wait = periodic_callback([@ EXCEPT !.rpc_time = t[1],
                                                            !.elapsed = t[2]])]
  IN  IF m.wait.callback = "none" THEN wait_pause(m)
      ELSE [m EXCEPT !.op.phase = "callback"]

\* wait_to_finish, line 306: get_error_log of the handle (lines 392-396,
\* 1004-1030, 1247-1248, 1429-1443), then QueryStateException with the log.
wait_error_log(m) ==
  LET ml == [m EXCEPT !.op.phase = "log"]
  IN  CASE client = "StrictHS2Client" -> raises(m, "QueryStateException(log)")
        [] client = "ImpalaHS2Client" ->
             dispatch(set_current_query_handle(ml, m.op.h), "GetLog", TRUE, TRUE)
        [] OTHER -> dispatch(ml, "get_log", FALSE, TRUE)

wait_state_any_final(m0, query_state, t) ==
  LET m == [m0 EXCEPT !.wait.polls = @ + 1, !.wait.state = query_state,
                      !.wait.cancelled = m0.is_query_cancelled]
  IN  IF query_state # "RUNNING_STATE" THEN returns(m, "None")
      ELSE wait_callback(m, t)

\* Variant: the callback is called after every poll, before its state is
\* looked at.
wait_state_tick_first(m0, query_state, t) ==
  LET m == [m0 EXCEPT !.wait = periodic_callback(
                        [@ EXCEPT !.polls = @ + 1, !.state = query_state,
                                  !.cancelled = m0.is_query_cancelled])]
  IN  CASE query_state = "FINISHED_STATE" -> returns(m, "None")
        [] query_state \in {"ERROR_STATE", "CANCELED_STATE"} ->
             IF m.connected THEN wait_error_log(m)
             ELSE raises(m, "DisconnectedException")
        [] OTHER -> wait_pause([m EXCEPT !.wait.rpc_time = t[1], !.wait.elapsed = t[2]])

\* wait_to_finish after get_query_state returned query_state (lines 299-313);
\* t is <<rpc_time, elapsed>>.
wait_state(m0, query_state, t) ==
  LET m == [m0 EXCEPT !.wait.polls = @ + 1, !.wait.state = query_state,
                      !.wait.cancelled = m0.is_query_cancelled]
  IN  CASE query_state = "FINISHED_STATE" -> returns(m, "None")
        [] query_state \in {"ERROR_STATE", "CANCELED_STATE"} ->
             IF m.connected THEN wait_error_log(m)
             ELSE raises(m, "DisconnectedException")
        [] OTHER -> wait_callback(m, t)

\* wait_to_finish after an RPC of it returned: GetOperationStatus / get_state
\* inside get_query_state (lines 952-955, 1351-1353), or the RPC of
\* get_error_log.
wait_to_finish_return(m, out, t) ==
  IF m.op.phase = "log"
  THEN IF IsHS2
       THEN LET e == check_hs2_rpc_status(out.status, m.is_query_cancelled)
            IN  IF e # "ok" THEN query_op_raise(m, e)
                ELSE raises(clear_current_query_handle(m), "QueryStateException(log)")
       ELSE raises(m, "QueryStateException(log)")
  ELSE IF IsHS2
       THEN LET e == check_hs2_rpc_status(out.status, m.is_query_cancelled)
            IN  IF e # "ok" THEN query_op_raise(m, e)
                ELSE wait_state(clear_current_query_handle(m), out.detail, t)
       ELSE wait_state(m, IF beeswax_rpc_status(out) # "OK" THEN "ERROR_STATE"
                          ELSE out.detail, t)

\* close_connection after CloseSession returned: _check_hs2_rpc_status may
\* raise, which the except clause swallows (lines 681-686).
close_connection_return(m, out) == close_connection_end(m)

\* The response out leaves the dispatcher inside operation m.op.
on_return(m, out, t) ==
  CASE m.op.name = "close_query" -> close_query_return(m, out)
    [] m.op.name = "close_dml" -> close_dml_return(m, out)
    [] m.op.name = "cancel_query" -> cancel_query_return(m, out)
    [] m.op.name = "get_query_state" -> get_query_state_return(m, out)
    [] m.op.name = "execute_query" -> execute_query_return(m, out)
    [] m.op.name = "fetch" -> fetch_return(m, out)
    [] m.op.name \in InfoOps -> info_return(m, out)
    [] m.op.name = "wait_to_finish" -> wait_to_finish_return(m, out, t)
    [] m.op.name \in SessionOps -> session_return(m, out)
    [] OTHER -> close_connection_return(m, out)

\* ------------------------------------------------- an operation is called

close_query_begin_no_check(m0, h) ==
  LET m == begin(m0, "close_query", h)
  IN  CASE client = "ImpalaHS2Client" ->
             dispatch(set_current_query_handle(m, h), "CloseImpalaOperation", TRUE, TRUE)
        [] client = "StrictHS2Client" ->
             dispatch(set_current_query_handle(m, h), "CloseOperation", FALSE, TRUE)
        [] OTHER -> dispatch(m, "close", FALSE, TRUE)

\* close_query up to the RPC: lines 910-920 (ImpalaHS2Client), 1224-1235
\* (StrictHS2Client), 1381-1386 (ImpalaBeeswaxClient).
close_query_begin(m0, h) ==
  LET m == begin(m0, "close_query", h)
      closed == m.handles[h].is_closed
  IN  CASE client = "ImpalaHS2Client" ->
             IF closed THEN returns(clear_current_query_handle(m), "True")
             ELSE dispatch(set_current_query_handle(m, h), "CloseImpalaOperation", TRUE, TRUE)
        [] client = "StrictHS2Client" ->
             IF closed THEN returns(m, "True")
             ELSE dispatch(set_current_query_handle(m, h), "CloseOperation", FALSE, TRUE)
        [] OTHER ->
             IF closed THEN returns(m, "True")
             ELSE dispatch(m, "close", FALSE, TRUE)

close_dml_begin_retry(m0, h) ==
  LET m == begin(m0, "close_dml", h)
  IN  CASE client = "ImpalaHS2Client" ->
             dispatch(set_current_query_handle(m, h), "CloseImpalaOperation", TRUE, TRUE)
        [] client = "StrictHS2Client" ->
             IF m.handles[h].is_closed THEN returns(m, "(None, None, None)")
             ELSE dispatch(set_current_query_handle(m, h), "CloseOperation", TRUE, TRUE)
        [] OTHER -> dispatch(m, "CloseInsert", FALSE, TRUE)

\* close_dml up to the RPC: lines 893-900 (ImpalaHS2Client), 1220-1235
\* (StrictHS2Client: close_query), 1373-1375 (ImpalaBeeswaxClient).
close_dml_begin(m0, h) ==
  LET m == begin(m0, "close_dml", h)
  IN  CASE client = "ImpalaHS2Client" ->
             dispatch(set_current_query_handle(m, h), "CloseImpalaOperation", FALSE, TRUE)
        [] client = "StrictHS2Client" ->
             IF m.handles[h].is_closed THEN returns(m, "(None, None, None)")
             ELSE dispatch(set_current_query_handle(m, h), "CloseOperation", FALSE, TRUE)
        [] OTHER -> dispatch(m, "CloseInsert", FALSE, TRUE)

cancel_query_begin_no_check(m0, h) ==
  LET m == begin(m0, "cancel_query", h)
  IN  IF IsHS2
      THEN dispatch(set_current_query_handle(m, h), "CancelOperation", TRUE, TRUE)
      ELSE dispatch(m, "Cancel", FALSE, FALSE)

\* cancel_query up to the RPC: lines 929-938, 1393-1396.
cancel_query_begin(m0, h) ==
  LET m == begin(m0, "cancel_query", h)
      closed == m.handles[h].is_closed
  IN  IF IsHS2
      THEN IF closed THEN returns(clear_current_query_handle(m), "True")
           ELSE dispatch(set_current_query_handle(m, h), "CancelOperation", TRUE, TRUE)
      ELSE IF closed THEN returns(m, "True")
           ELSE dispatch(m, "Cancel", FALSE, FALSE)

\* get_query_state up to the RPC: lines 944-951, 1349-1350.
get_query_state_begin(m0, h) ==
  LET m == begin(m0, "get_query_state", h)
  IN  IF IsHS2
      THEN dispatch(set_current_query_handle(m, h), "GetOperationStatus", TRUE, TRUE)
      ELSE dispatch(m, "get_state", FALSE, TRUE)

execute_query_begin_retry(m0, h) ==
  LET m == [begin(m0, "execute_query", h) EXCEPT
              !.is_query_cancelled = FALSE,
              !.op.was_cancelled = m0.is_query_cancelled]
  IN  IF IsHS2
      THEN dispatch(clear_current_query_handle(m), "ExecuteStatement", TRUE, TRUE)
      ELSE dispatch(m, "query", FALSE, TRUE)

\* Variant: execute_query leaves the cancel flag as it finds it.
execute_query_begin_keep_flag(m0, h) ==
  LET m == [begin(m0, "execute_query", h) EXCEPT
              !.op.was_cancelled = m0.is_query_cancelled]
  IN  IF IsHS2
      THEN dispatch(clear_current_query_handle(m), "ExecuteStatement", FALSE, TRUE)
      ELSE dispatch(m, "query", FALSE, TRUE)

\* execute_query up to the RPC: lines 758-767, 1337-1339.  h is the handle
\* the server will hand out.
execute_query_begin(m0, h) ==
  LET m == [begin(m0, "execute_query", h) EXCEPT
              !.is_query_cancelled = FALSE,
              !.op.was_cancelled = m0.is_query_cancelled]
  IN  IF IsHS2
      THEN dispatch(clear_current_query_handle(m), "ExecuteStatement", FALSE, TRUE)
      ELSE dispatch(m, "query", FALSE, TRUE)

hasMoreRows_resp(hd) == hd.ind

\* _hasMoreRows of the response the generator holds: resp.hasMoreRows
\* (ImpalaHS2Client, line 859), the number of values of the first column
\* (StrictHS2Client, lines 1257-1258), result.has_more (Beeswax, line 1370).
hasMoreRows(hd) ==
  IF client = "StrictHS2Client" THEN hd.nrows # 0 ELSE hd.ind

fetch_begin_retry(m0, h) ==
  LET m == begin(m0, "fetch", h)
      name == IF IsHS2 THEN "FetchResults" ELSE "fetch"
  IN  CASE m.handles[h].gen = "none" ->
             dispatch(set_current_query_handle(m, h), name, TRUE, TRUE)
        [] ~hasMoreRows(m.handles[h]) ->
             returns(clear_current_query_handle([m EXCEPT !.handles[h].gen = "done"]),
                     "StopIteration")
        [] OTHER -> dispatch(m, name, TRUE, TRUE)

\* One resumption of the generator fetch(h) up to its RPC: the first one
\* enters the try block (lines 828-845); a later one leaves the yield, tests
\* _hasMoreRows and either ends the generator or loops (lines 853-856,
\* 1370-1371, 1356-1359).
fetch_begin(m0, h) ==
  LET m == begin(m0, "fetch", h)
      name == IF IsHS2 THEN "FetchResults" ELSE "fetch"
  IN  CASE m.handles[h].gen = "none" ->
             dispatch(set_current_query_handle(m, h), name, FALSE, TRUE)
        [] ~hasMoreRows(m.handles[h]) ->
             returns(clear_current_query_handle([m EXCEPT !.handles[h].gen = "done"]),
                     "StopIteration")
        [] OTHER -> dispatch(m, name, FALSE, TRUE)

\* Variant: dropping the generator closes the query.
fetch_close_begin_closes_query(m0, h) ==
  LET m == begin(m0, "fetch_close", h)
  IN  returns([m EXCEPT !.handles[h].gen = "closed", !.handles[h].is_closed = TRUE],
              "None")

\* The caller drops the generator of fetch(h) (generator.close()): a
\* generator suspended at its yield gets GeneratorExit there, and the finally
\* clause of the HS2 clients runs (lines 855-856); one that never ran, and the
\* Beeswax one (lines 1355-1371), just ends.
fetch_close_begin(m0, h) ==
  LET m == [begin(m0, "fetch_close", h) EXCEPT !.handles[h].gen = "closed"]
  IN  IF IsHS2 /\ m0.handles[h].gen = "suspended"
      THEN returns(clear_current_query_handle(m), "None")
      ELSE returns(m, "None")

\* get_runtime_profile (lines 957-966, 1250-1251, 1399-1401), get_summary
\* (lines 976-985, 1406-1408) and get_warning_log / get_error_log (lines
\* 386-396, 1004-1018, 1244-1248, 1429-1433) up to the RPC.
info_begin(m0, name, h) ==
  LET m == begin(m0, name, h)
      rpcname == CASE name = "get_runtime_profile" -> "GetRuntimeProfile"
                   [] name = "get_summary" -> "GetExecSummary"
                   [] OTHER -> IF IsHS2 THEN "GetLog" ELSE "get_log"
  IN  CASE client = "StrictHS2Client" /\ name # "get_summary" -> returns(m, "no value")
        [] IsHS2 -> dispatch(set_current_query_handle(m, h), rpcname, TRUE, TRUE)
        [] OTHER -> dispatch(m, rpcname, FALSE, TRUE)

\* wait_to_finish up to the first poll: lines 296-298.
wait_to_finish_begin(m0, h, callback) ==
  wait_poll([begin(m0, "wait_to_finish", h) EXCEPT !.wait.callback = callback])

\* close_connection up to the CloseSession RPC (lines 669-680); the Beeswax
\* client only closes the transport (line 1309).
close_connection_begin(m0) ==
  LET m == begin(m0, "close_connection", None)
  IN  IF IsHS2 /\ m.session_handle
      THEN dispatch(m, "CloseSession", FALSE, TRUE)
      ELSE close_connection_end(m)

\* The body of the periodic_callback (line 309): a function that returns, a
\* call of get_summary on the handle waited for, or close_connection.
callback_body(m) ==
  CASE m.wait.callback = "get_summary" -> info_begin(m, "get_summary", m.op.h)
    [] m.wait.callback = "close_connection" -> close_connection_begin(m)
    [] OTHER -> wait_pause(m)

\* If the operation that the callback called has ended, and with it the
\* callback: what it raised leaves wait_to_finish, which has no except
\* clause (lines 291-313); else the loop goes on at line 310.
callback_ended(m) ==
  IF m.op.name = "wait_to_finish" /\ m.op.phase = "callback_ended"
  THEN IF m.last.out = "raise" THEN raises(m, m.last.val) ELSE wait_pause(m)
  ELSE m

\* connect up to its first call: close_connection (lines 206, 669-680).
connect_begin(m0) ==
  LET m == [begin(m0, "connect", None) EXCEPT !.op.phase = "close_old"]
  IN  IF IsHS2 /\ m.session_handle THEN dispatch(m, "CloseSession", FALSE, TRUE)
      ELSE connect_closed(m)

\* is_connected up to its ping: lines 240-243.
is_connected_begin(m0) ==
  LET m == begin(m0, "is_connected", None)
  IN  IF ~m.connected THEN returns(m, "False") ELSE session_ping(m)

\* One pass through the dispatcher's loop with the outcome out of
\* rpc(rpc_input), and whatever of the operation follows it.
attempt(m, out, t) ==
  LET r == CASE m.rpc.name \in RawCalls -> raw_attempt(out, m.rpc.name)
             [] IsHS2 -> hs2_attempt(out, m.rpc, m.is_query_cancelled, max_tries)
             [] OTHER -> beeswax_attempt(out, m.rpc, m.is_query_cancelled, max_tries)
      f == [frame_after(m.rpc, out, r, m.is_query_cancelled) EXCEPT
              !.sent_id = IF IsHS2 /\ use_http_base_transport
                             /\ m.rpc.name \notin RawCalls
                          THEN x_request_id(m) ELSE @]
      m1 == [m EXCEPT !.rpc = f, !.wait = IF Nested(m) THEN @ ELSE woken(@),
                      !.op.attempts = IF m.op.phase = "main" THEN @ + 1 ELSE @,
                      !.op.aux = IF m.op.phase = "main" \/ m.op.name \in SessionOps
                                 THEN @ ELSE @ + 1]
      m2 == IF m.op.name = "fetch" THEN [m1 EXCEPT !.handles[m.op.h].fetches = @ + 1]
            ELSE m1
  IN  CASE r.kind = "return" -> on_return(m2, out, t)
        [] r.kind = "raise" -> on_raise(m2, r.exc)
        [] OTHER -> m2

\* ----------------------------------------------------------------- actions

\* n is self._request_num, or Unnumbered.
InitNumbered(n) ==
  /\ client \in Clients
  /\ use_http_base_transport \in (IF client = "ImpalaBeeswaxClient" THEN {FALSE} ELSE BOOLEAN)
  /\ connect_max_tries \in (IF use_http_base_transport THEN 1..MaxConnectTries
                            ELSE {MaxConnectTries})
  /\ connected \in BOOLEAN
  /\ session_handle = (connected /\ client # "ImpalaBeeswaxClient")
  /\ is_query_cancelled = FALSE
  /\ current_query_handle = None
  /\ handles = [h \in HandleIds |-> NoHandle]
  /\ op = Idle
  /\ rpc = NoRpc
  /\ last = NoOp
  /\ prev = NoOp
  /\ wait = NoWait
  /\ default_query_options = {}
  /\ calc = NoCalc
  /\ request_num = (IF client = "ImpalaBeeswaxClient" THEN Unnumbered ELSE n[connected])
  /\ current_request_id = (IF connected THEN format_request_id(request_num) ELSE NoId)

\* The numbering of the calls is left out.
Init == InitNumbered([c \in BOOLEAN |-> Unnumbered])

IdleNow == op.name = "idle"

Made(h) == handles[h].made

\* The handle the next successful execute_query returns.
FreshHandle(h) == ~Made(h) /\ \A g \in HandleIds : g < h => Made(g)

execute_query == \E h \in HandleIds :
  IdleNow /\ FreshHandle(h) /\ Set(execute_query_begin(M, h))

close_query == \E h \in HandleIds :
  IdleNow /\ Made(h) /\ Set(close_query_begin(M, h))

close_dml == \E h \in HandleIds :
  IdleNow /\ Made(h) /\ Set(close_dml_begin(M, h))

cancel_query == \E h \in HandleIds :
  IdleNow /\ Made(h) /\ Set(cancel_query_begin(M, h))

get_query_state == \E h \in HandleIds :
  IdleNow /\ Made(h) /\ Set(get_query_state_begin(M, h))

\* The caller resumes the generator of fetch(h); it fetches only from a
\* handle that has a result set (the assert of line 830).
fetch == \E h \in HandleIds :
  /\ IdleNow /\ Made(h)
  /\ IsHS2 => handles[h].hasResultSet
  /\ handles[h].gen \in {"none", "suspended"}
  /\ (handles[h].gen = "suspended" /\ ~hasMoreRows(handles[h]))
       \/ handles[h].fetches < MaxFetches
  /\ Set(fetch_begin(M, h))

\* The caller abandons the fetch sequence of h before its end.
fetch_close == \E h \in HandleIds :
  /\ IdleNow /\ Made(h)
  /\ handles[h].gen \in {"none", "suspended"}
  /\ Set(fetch_close_begin(M, h))

close_connection == IdleNow /\ Set(close_connection_begin(M))

connect == IdleNow /\ Set(connect_begin(M))

is_connected == IdleNow /\ Set(is_connected_begin(M))

get_log == \E h \in HandleIds :
  IdleNow /\ Made(h) /\ Set(info_begin(M, "get_warn_or_error_log", h))

get_runtime_profile == \E h \in HandleIds :
  IdleNow /\ Made(h) /\ Set(info_begin(M, "get_runtime_profile", h))

get_summary == \E h \in HandleIds :
  IdleNow /\ Made(h) /\ Set(info_begin(M, "get_summary", h))

\* wait_to_finish(handle), without a callback.
wait_to_finish == \E h \in HandleIds :
  IdleNow /\ Made(h) /\ Set(wait_to_finish_begin(M, h, "none"))

\* wait_to_finish(handle, periodic_callback).
wait_to_finish_callback == \E h \in HandleIds : \E callback \in Callbacks \ {"none"} :
  IdleNow /\ Made(h) /\ Set(wait_to_finish_begin(M, h, callback))

\* The periodic_callback runs: it returns, or it calls the client.
run_callback == InCallback(M) /\ Set(callback_ended(callback_body(M)))

\* time.sleep returns, in wait_to_finish (line 313) or between two tries of
\* _populate_query_options (line 728).
sleep_returns ==
  /\ op.phase \in {"sleep", "set_all_sleep"}
  /\ Set(IF op.name = "connect" THEN populate_next(M) ELSE wait_poll(M))

\* The durations that go with the answer out: they matter only to a poll of
\* wait_to_finish that reports a state that is not final.
Timings(out) ==
  IF /\ op.name = "wait_to_finish" /\ op.phase = "main"
     /\ out.kind = "ok" /\ out.detail = "RUNNING_STATE"
  THEN {t \in RpcTimes \X ElapsedTimes : t[1] <= t[2]} ELSE {<<0, 0>>}

\* The server lets wait_to_finish poll MaxPolls times at most: the last poll
\* allowed does not report a state that is not final.
PollAllowed(out) ==
  (op.name = "wait_to_finish" /\ op.phase = "main" /\ wait.polls + 1 >= MaxPolls)
    => ~(/\ out.kind = "ok" /\ out.detail = "RUNNING_STATE"
         /\ IsHS2 => check_hs2_rpc_status(out.status, FALSE) = "ok")

\* The server ends the result of "set all" after MaxFetches batches at most.
SetAllFetchAllowed(out) ==
  (op.name = "connect" /\ op.phase = "set_all_fetch" /\ op.fetched + 1 >= MaxFetches)
    => ~(out.kind = "ok" /\ out.flag /\ check_hs2_rpc_status(out.status, FALSE) = "ok")

\* rpc(rpc_input) is called and the server, or the transport, answers.
rpc_attempt == \E out \in Outcomes(rpc.name) : \E t \in Timings(out) :
  /\ ~IdleNow /\ rpc.state = "running"
  /\ PollAllowed(out) /\ SetAllFetchAllowed(out)
  /\ Set(callback_ended(attempt(M, out, t)))

\* The shell's signal handler sets the flag (CTRL+C), at any moment.
set_query_cancelled ==
  /\ ~is_query_cancelled
  /\ is_query_cancelled' = TRUE
  /\ UNCHANGED <<config, connected, session_handle, current_query_handle,
                 handles, op, rpc, last, prev, wait, default_query_options,
                 request_num, current_request_id, calc>>

\* Every operation of the client.
Next ==
  \/ execute_query
  \/ fetch_close
  \/ close_query
  \/ close_dml
  \/ cancel_query
  \/ get_query_state
  \/ fetch
  \/ wait_to_finish
  \/ wait_to_finish_callback
  \/ run_callback
  \/ sleep_returns
  \/ get_log
  \/ get_runtime_profile
  \/ get_summary
  \/ connect
  \/ is_connected
  \/ close_connection
  \/ rpc_attempt
  \/ set_query_cancelled

Spec == Init /\ [][Next]_vars

\* A caller that submits, polls and cancels queries: the dispatcher with
\* idempotent and non-idempotent calls of both suppress settings.
NextRpc ==
  \/ execute_query
  \/ cancel_query
  \/ get_query_state
  \/ close_connection
  \/ rpc_attempt
  \/ set_query_cancelled

SpecRpc == Init /\ [][NextRpc]_vars

\* A caller that submits queries and closes or cancels them.
NextClose ==
  \/ execute_query
  \/ close_query
  \/ close_dml
  \/ cancel_query
  \/ close_connection
  \/ rpc_attempt
  \/ set_query_cancelled

SpecClose == Init /\ [][NextClose]_vars

\* A caller that submits queries and fetches their results.
NextFetch ==
  \/ execute_query
  \/ fetch
  \/ close_connection
  \/ rpc_attempt
  \/ set_query_cancelled

SpecFetch == Init /\ [][NextFetch]_vars

\* A caller that submits queries, fetches some of their results and closes
\* them.
NextAbandon ==
  \/ execute_query
  \/ fetch
  \/ fetch_close
  \/ close_query
  \/ rpc_attempt
  \/ set_query_cancelled

SpecAbandon == Init /\ [][NextAbandon]_vars

\* A caller that submits queries and waits for them.
NextWait ==
  \/ execute_query
  \/ wait_to_finish
  \/ wait_to_finish_callback
  \/ run_callback
  \/ sleep_returns
  \/ close_connection
  \/ rpc_attempt
  \/ set_query_cancelled

SpecWait == Init /\ [][NextWait]_vars

\* A caller that opens, probes and closes the connection, and submits and
\* polls queries in between.
NextConn ==
  \/ connect
  \/ sleep_returns
  \/ is_connected
  \/ close_connection
  \/ execute_query
  \/ get_query_state
  \/ rpc_attempt
  \/ set_query_cancelled

SpecConn == Init /\ [][NextConn]_vars

\* A caller that works on the queries it submitted in every way.
NextHandle ==
  \/ execute_query
  \/ close_query
  \/ close_dml
  \/ cancel_query
  \/ get_query_state
  \/ fetch
  \/ wait_to_finish
  \/ sleep_returns
  \/ get_log
  \/ get_runtime_profile
  \/ get_summary
  \/ rpc_attempt
  \/ set_query_cancelled

SpecHandle == Init /\ [][NextHandle]_vars

\* The calls connect has made before a client is connected: OpenSession
\* alone (StrictHS2Client), or OpenSession, the ExecuteStatement,
\* GetResultSetMetadata, FetchResults and CloseImpalaOperation of "set all",
\* and PingImpalaHS2Service (ImpalaHS2Client), when none was retried.
connect_calls == IF client = "StrictHS2Client" THEN 1 ELSE 6

\* The numbering of the calls is followed: a new client has numbered no call
\* and has no request id yet (line 622), a connected one has numbered the
\* calls of its connect.
InitIds == InitNumbered([c \in BOOLEAN |-> IF c THEN <<connect_calls>> ELSE <<0>>])

RequestsLeft == IF request_num = Unnumbered THEN TRUE ELSE request_num[1] < MaxRequests

\* The dispatcher with the numbering of its calls.
NextIds ==
  \/ RequestsLeft /\ execute_query
  \/ RequestsLeft /\ cancel_query
  \/ RequestsLeft /\ get_query_state
  \/ RequestsLeft /\ close_connection
  \/ rpc_attempt
  \/ set_query_cancelled

SpecIds == InitIds /\ [][NextIds]_vars

\* ------------------------------------------------------ helper functions

\* Bytes of the nulls field of a TColumn.
NullBytes == {0, 5, 255}

\* Variant: bitarray(endian='big').
byte_bits_big_endian(b) == [k \in 1..8 |-> (b \div 2 ^ (8 - k)) % 2]

\* bitarray(endian='little').frombytes of one byte: the bit of weight 2^k is
\* at index k.
byte_bits(b) == [k \in 1..8 |-> (b \div 2 ^ (k - 1)) % 2]

RECURSIVE frombytes(_)
\* is_null.frombytes(tcol.nulls), lines 871-872.
frombytes(nulls) ==
  IF nulls = <<>> THEN <<>>
  ELSE byte_bits(Head(nulls)) \o frombytes(Tail(nulls))

\* The value the server put at row i (from 1) of a column: rows differ.
value_at(i) == <<"A", "B", "C">>[((i - 1) % 3) + 1]

\* A converter of HS2ValueConverter: the display form of a value.
stringifier(v) == CASE v = "A" -> "a" [] v = "B" -> "b" [] OTHER -> "c"

\* A column after its getter: its values, its nulls, and whether
\* column_value_converters has a converter for it.
Column(n, nulls, conv) ==
  [values |-> [i \in 1..n |-> value_at(i)], nulls |-> nulls, converter |-> conv]

\* ImpalaHS2Client._transpose, lines 875-889, for one column and the row
\* current_row (from 0): "IndexError" stands for tcol.values[current_row]
\* raising.
transpose_cell(tcol, current_row, num_rows) ==
  LET is_null == frombytes(tcol.nulls)
      bitset_len == IF Len(is_null) < num_rows THEN Len(is_null) ELSE num_rows
  IN  IF current_row < bitset_len /\ is_null[current_row + 1] = 1 THEN "NULL"
      ELSE IF current_row >= Len(tcol.values) THEN "IndexError"
      ELSE IF tcol.converter THEN stringifier(tcol.values[current_row + 1])
      ELSE tcol.values[current_row + 1]

\* ImpalaHS2Client._transpose, lines 861-890: the rows, or the exception.
transpose(tcols) ==
  LET num_rows == Len(tcols[1].values)
      rows == [r \in 1..num_rows |->
                 [c \in 1..Len(tcols) |-> transpose_cell(tcols[c], r - 1, num_rows)]]
  IN  IF \E r \in 1..num_rows : \E c \in 1..Len(tcols) : rows[r][c] = "IndexError"
      THEN [raised |-> "IndexError", rows |-> <<>>]
      ELSE [raised |-> "none", rows |-> rows]

\* Batches of one or two columns; the second column has as many values as
\* the first, or one less.
NullsOf == UNION {[1..k -> NullBytes] : k \in 0..MaxNullBytes}

Batches ==
  LET First == {Column(n, nulls, conv) :
                  n \in 0..MaxRows, nulls \in NullsOf, conv \in BOOLEAN}
      Second(n) == {Column(k, nulls, conv) :
                      k \in {n, n - 1} \cap 0..MaxRows,
                      nulls \in {<<>>, <<5>>, <<255, 5>>}, conv \in BOOLEAN}
  IN  {<<c1>> : c1 \in First}
        \cup UNION {{<<c1, c2>> : c2 \in Second(Len(c1.values))} : c1 \in First}

HexDigits ==
  <<"0", "1", "2", "3", "4", "5", "6", "7", "8", "9", "a", "b", "c", "d", "e", "f">>

RECURSIVE hex(_)
\* bytes.hex(): two lower-case digits a byte, in the order of the bytes.
hex(bytes) ==
  IF bytes = <<>> THEN ""
  ELSE HexDigits[(Head(bytes) \div 16) + 1] \o HexDigits[(Head(bytes) % 16) + 1]
         \o hex(Tail(bytes))

\* The slice s[start:stop:-1] of Python on indices from 0 (stop = -1 for an
\* omitted stop): from min(start, len - 1) down to stop + 1.
slice_down(s, start, stop) ==
  LET hi == IF start < Len(s) - 1 THEN start ELSE Len(s) - 1
  IN  [k \in 1..(IF hi > stop THEN hi - stop ELSE 0) |-> s[hi - k + 2]]

\* Variant: the two halves are not reversed.
convert_id_to_str_in_order(id_bytes) ==
  hex(SubSeq(id_bytes, 1, 8)) \o ":" \o hex(SubSeq(id_bytes, 9, 16))

\* ImpalaHS2Client._convert_id_to_str, lines 809-825.
convert_id_to_str(id_bytes) ==
  LET low_bytes_reversed == slice_down(id_bytes, 7, -1)
      high_bytes_reversed == slice_down(id_bytes, 16, 7)
  IN  hex(low_bytes_reversed) \o ":" \o hex(high_bytes_reversed)

\* The guid of an operation or session id has 16 bytes.
GuidLen == 16

Guids ==
  {[i \in 1..GuidLen |-> (off + step * (i - 1)) % 256] :
     off \in 0..MaxIdOffset, step \in {0, 1, 7, 255}}

\* The authentication options of ImpalaClient.__init__: use_ldap, jwt and
\* oauth (set or None), use_kerberos, kerberos_host_fqdn (None, empty, a host).
AuthSettings ==
  [use_ldap : BOOLEAN, jwt : BOOLEAN, oauth : BOOLEAN, use_kerberos : BOOLEAN,
   kerberos_host_fqdn : {"None", "", "host"}]

\* ImpalaClient._get_http_transport, lines 454-476: the set...Auth call made
\* on the ImpalaHttpClient.
get_http_transport(a) ==
  CASE a.use_ldap -> "LDAP"
    [] a.jwt -> "JWT"
    [] a.oauth -> "OAUTH"
    [] a.use_kerberos \/ a.kerberos_host_fqdn \notin {"None", ""} -> "KERBEROS"
    [] OTHER -> "NONE"

\* Variant: the socket transport follows the order of the HTTP transport.
get_transport_as_http(a) ==
  CASE a.use_ldap -> "LDAP"
    [] a.jwt -> "JWT"
    [] a.oauth -> "OAUTH"
    [] a.use_kerberos -> "KERBEROS"
    [] OTHER -> "NONE"

\* ImpalaClient._get_transport, lines 536-546: a plain TBufferedTransport
\* ("NONE"), or a TSaslClientTransport with GSSAPI ("KERBEROS") or with PLAIN
\* ("LDAP").
get_transport(a) ==
  CASE ~(a.use_ldap \/ a.use_kerberos) -> "NONE"
    [] a.use_kerberos -> "KERBEROS"
    [] OTHER -> "LDAP"

\* connect, lines 208-211: the transport of the configured kind.
build_transport(http, a) == IF http THEN get_http_transport(a) ELSE get_transport(a)

Call(name, args) == [NoCalc EXCEPT !.name = name, !.args = args]

\* The client as its constructor leaves it (lines 157-200, 594-622), and one
\* helper function about to be called.
InitHelpers ==
  /\ client \in Clients
  /\ use_http_base_transport \in (IF client = "ImpalaBeeswaxClient" THEN {FALSE} ELSE BOOLEAN)
  /\ connect_max_tries = MaxConnectTries
  /\ connected = FALSE
  /\ session_handle = FALSE
  /\ is_query_cancelled = FALSE
  /\ current_query_handle = None
  /\ handles = [h \in HandleIds |-> NoHandle]
  /\ op = Idle
  /\ rpc = NoRpc
  /\ last = NoOp
  /\ prev = NoOp
  /\ wait = NoWait
  /\ default_query_options = {}
  /\ request_num = Unnumbered
  /\ current_request_id = NoId
  /\ calc \in {Call("build_transport", a) : a \in AuthSettings}
         \cup (IF client = "ImpalaHS2Client" /\ ~use_http_base_transport
               THEN {Call("transpose", b) : b \in Batches}
                      \cup {Call("convert_id_to_str", g) : g \in Guids}
               ELSE {})

client_state == <<config, connected, session_handle, is_query_cancelled,
                  current_query_handle, handles, op, rpc, last, prev, wait,
                  default_query_options, request_num, current_request_id>>

Ends(result) ==
  /\ ~calc.done
  /\ calc' = [calc EXCEPT !.done = TRUE, !.result = result]
  /\ UNCHANGED client_state

transpose_call == calc.name = "transpose" /\ Ends(transpose(calc.args))

convert_id_to_str_call ==
  calc.name = "convert_id_to_str" /\ Ends(convert_id_to_str(calc.args))

build_transport_call ==
  calc.name = "build_transport"
    /\ Ends(build_transport(use_http_base_transport, calc.args))

NextHelpers ==
  \/ transpose_call
  \/ convert_id_to_str_call
  \/ build_transport_call

SpecHelpers == InitHelpers /\ [][NextHelpers]_vars

\* ------------------------------------------------------------------ claims

\* The last two operations were close_query on the same handle, one right
\* after the other, and the first one got an answer.
ClosedTwice ==
  /\ IdleNow
  /\ prev.op = "close_query" /\ last.op = "close_query"
  /\ prev.h = last.h
  /\ prev.out = "return"

ErrorStatuses == {"ERROR_STATUS", "INVALID_HANDLE_STATUS", "ERROR"}

\* C1 as stated: for every server response to the close RPC, close(handle)
\* called twice in a row returns true both times, and only the first call
\* reaches the server.
C1_CloseTwiceBothTrue ==
  ClosedTwice =>
    /\ prev.val = "True"
    /\ last.out = "return" /\ last.val = "True"
    /\ last.attempts = 0

\* C1 as amended: when the first of two successive close(handle) calls gets a
\* server response, the second returns true without any network attempt; the
\* first returns true exactly when the response carries a non-error status
\* (false for an error status), after at most max_tries attempts of the one
\* close RPC it dispatches.
C1_SecondCloseIsNoOp ==
  ClosedTwice =>
    /\ last.out = "return" /\ last.val = "True" /\ last.attempts = 0
    /\ prev.attempts <= max_tries
    /\ prev.attempts = 0 => prev.val = "True"
    /\ prev.attempts > 0 => (prev.val = "False" <=> prev.resp \in ErrorStatuses)
    /\ prev.val \in {"True", "False"}

C1_Witness ==
  ClosedTwice /\ prev.val = "False" /\ prev.attempts = 1 /\ last.val = "True"

\* C2: after any close(handle) call has ended, by returning true or false or
\* by raising, handle.closed is true.
C2_ClosedAfterAnyClose ==
  (IdleNow /\ last.op = "close_query") => handles[last.h].is_closed

\* Every attempt of the dispatcher call failed in the transport and the call
\* has ended, on an HTTP transport.
AllAttemptsTransportFailed ==
  /\ use_http_base_transport
  /\ rpc.state = "raised" /\ rpc.attempts >= 1 /\ rpc.only_transport

AttemptsDue == IF rpc.retry_on_error THEN max_tries ELSE 1

\* C3 as stated: under a persistent transport failure an idempotent call makes
\* exactly maxTries attempts and a non-idempotent call exactly one, and the
\* call then raises Disconnected.
C3_TransportFailureDisconnected ==
  AllAttemptsTransportFailed =>
    /\ rpc.attempts = AttemptsDue
    /\ rpc.exc = "DisconnectedException"

\* C3 as amended: the numbers of attempts are as stated; the call raises
\* Disconnected unless its last transport failure wraps a low-level socket
\* error, which is raised itself.
C3_TransportFailureAttempts ==
  AllAttemptsTransportFailed =>
    /\ rpc.attempts = AttemptsDue
    /\ rpc.exc = IF rpc.fail.kind = "TTransportException(socket.error)"
                 THEN "socket.error" ELSE "DisconnectedException"

C3_Witness ==
  /\ AllAttemptsTransportFailed
  /\ rpc.retry_on_error /\ max_tries = MaxConnectTries /\ rpc.attempts = MaxConnectTries
  /\ rpc.exc = "DisconnectedException"

\* A sleep of the retry loop that followed a failure without Retry-After.
SleptWithoutRetryAfter == rpc.sleep.before > 1 /\ rpc.sleep.hdr = "none"

\* C4 as stated: the sleep before attempt n > 1 is minSleep * (n-1), so that
\* the sleeps before attempts 1..4 are 0, 1, 2, 3.
C4_SleepBeforeAttempt ==
  SleptWithoutRetryAfter =>
    /\ rpc.sleep.secs = min_sleep_interval * (rpc.sleep.before - 1)
    /\ rpc.sleep.before <= 4 => rpc.sleep.secs = <<0, 1, 2, 3>>[rpc.sleep.before]

\* C4 as amended: the sleep before attempt n > 1 is minSleep * (n-2): the
\* sleeps before attempts 1..4 are 0 (none), 0, 1, 2.
C4_SleepAfterAttempt ==
  SleptWithoutRetryAfter =>
    /\ rpc.sleep.secs = min_sleep_interval * (rpc.sleep.before - 2)
    /\ rpc.sleep.before <= 4 => rpc.sleep.secs = <<0, 0, 1, 2>>[rpc.sleep.before]

C4_Witness ==
  SleptWithoutRetryAfter /\ max_tries = 4 /\ rpc.sleep.before = 4 /\ rpc.sleep.secs = 2

\* C5: a dispatched call makes more than one network attempt only on an HTTP
\* transport and when it is idempotent; on any other transport a call that
\* passed the connection check and has ended made exactly one attempt,
\* whatever the idempotent flag and the configured maximum.
C5_RetryOnlyHttpIdempotent ==
  /\ rpc.attempts > 1 => use_http_base_transport /\ rpc.retry_on_error
  /\ (~use_http_base_transport /\ rpc.live /\ rpc.state \in {"returned", "raised"})
       => rpc.attempts = 1
  /\ ~use_http_base_transport => rpc.attempts <= 1

C5_Witness ==
  /\ ~use_http_base_transport /\ connect_max_tries > 1
  /\ rpc.retry_on_error /\ rpc.state = "raised" /\ rpc.attempts = 1
  /\ rpc.fail.kind = "TTransportException"

\* C6: one closeDml(handle) call makes at most one network attempt of its
\* close RPC, on every transport, for every maximum and every failure.
C6_CloseDmlOneAttempt ==
  /\ op.name = "close_dml" => op.attempts <= 1 /\ rpc.attempts <= 1
  /\ last.op = "close_dml" => last.attempts <= 1

C6_Witness ==
  /\ IdleNow /\ last.op = "close_dml" /\ last.out = "raise" /\ last.attempts = 1
  /\ use_http_base_transport /\ connect_max_tries > 1
  /\ rpc.fail.kind = "TTransportException"

\* C7: one submit sends the execute-statement RPC at most once, whatever its
\* failure: a failed execute is never sent again.
C7_ExecuteSentOnce ==
  /\ op.name = "execute_query" => op.attempts <= 1
  /\ (op.name = "execute_query" /\ rpc.name \in {"ExecuteStatement", "query"})
       => rpc.attempts <= 1 /\ rpc.num_tries <= 1
  /\ last.op = "execute_query" => last.attempts <= 1

C7_Witness ==
  /\ IdleNow /\ last.op = "execute_query" /\ last.out = "raise" /\ last.attempts = 1
  /\ use_http_base_transport /\ connect_max_tries > 1
  /\ rpc.name = "ExecuteStatement" /\ rpc.fail.kind = "HttpError"

\* C8: the fetch-next attempts sent for a handle are one per batch yielded
\* plus at most one final failed attempt; a resumption that yields a batch
\* made exactly one attempt, one that ends the sequence made at most one, and
\* it made none only when the sequence was over or the client disconnected.
C8_OneFetchPerResumption ==
  /\ \A h \in HandleIds :
       LET failed == handles[h].fetches - Len(handles[h].yielded)
       IN  /\ failed \in {0, 1}
           /\ failed = 1 => handles[h].gen = "failed"
  /\ op.name = "fetch" => op.attempts <= 1
  /\ last.op = "fetch" =>
       /\ last.attempts <= 1
       /\ last.val = "batch" => last.attempts = 1
       /\ last.attempts = 0 => last.val \in {"StopIteration", "DisconnectedException"}

C8_Witness ==
  /\ use_http_base_transport /\ connect_max_tries > 1
  /\ \E h \in HandleIds :
       /\ handles[h].gen = "failed"
       /\ Len(handles[h].yielded) = 1 /\ handles[h].fetches = 2
  /\ last.op = "fetch" /\ last.val = "DisconnectedException"

\* The batches of handle h were yielded in the order the server sent them.
InServerOrder(h) ==
  \A i \in 1..Len(handles[h].yielded) : handles[h].yielded[i] = i

\* The fetch sequence of h ran as far as goOn allows: a fetch-next RPC is
\* sent after a batch only if goOn(that response), and the sequence ends
\* normally only at a response for which goOn is false.
EndsExactlyAt(h, goOn) ==
  LET hd == handles[h]
      n == Len(hd.yielded)
  IN  /\ (op.name = "fetch" /\ op.h = h /\ rpc.state = "running" /\ n > 0) => goOn
      /\ (hd.gen = "failed" /\ hd.fetches > n /\ n > 0) => goOn
      /\ hd.gen = "done" => n > 0 /\ ~goOn

\* C9 as stated: in every client variant the batches come in server order
\* and the sequence ends exactly at the first response whose more-rows
\* indicator is false.
C9_EndsAtIndicator ==
  \A h \in HandleIds : InServerOrder(h) /\ EndsExactlyAt(h, handles[h].ind)

\* C9 as amended: so it is for the Impala HS2 and the Beeswax client; the
\* strict HS2 client ends the sequence exactly at the first response whose
\* first column is empty, whatever the indicator says.
C9_EndsAtIndicatorOrEmptyBatch ==
  \A h \in HandleIds :
    /\ InServerOrder(h)
    /\ EndsExactlyAt(h, IF client = "StrictHS2Client" THEN handles[h].nrows > 0
                        ELSE handles[h].ind)

C9_Witness ==
  \E h \in HandleIds :
    /\ handles[h].gen = "done" /\ Len(handles[h].yielded) = 2
    /\ client = "StrictHS2Client" /\ handles[h].ind /\ handles[h].nrows = 0

\* An attempt of the current call failed while the cancel flag was set.
FailedWhileCancelled == rpc.fail.kind # "none" /\ rpc.fail.cancelled

\* The failures the dispatchers test the cancel flag for.
CancelSuppresses(kind) ==
  IF IsHS2 THEN kind = "TApplicationException"
  ELSE kind \notin {"TTransportException", "TTransportException(socket.error)"}

\* C10 as stated: if the cancel flag is set when an attempt fails, the
\* dispatcher raises Cancelled, for every kind of failure and whether or not
\* attempts remain.
C10_CancelledOnAnyFailure ==
  FailedWhileCancelled =>
    rpc.state = "raised" /\ rpc.exc = "QueryCancelledByShellException"

\* C10 as amended: with the flag set and suppression enabled for the call,
\* the dispatcher raises Cancelled, whether or not attempts remain, for an
\* application-level failure (rich protocol) and for every failure but a
\* transport failure (legacy protocol); every other failure is retried or
\* surfaced as it is without the flag, never as Cancelled.
C10_CancelledOnApplicationFailure ==
  FailedWhileCancelled =>
    IF rpc.suppress /\ CancelSuppresses(rpc.fail.kind)
    THEN rpc.state = "raised" /\ rpc.exc = "QueryCancelledByShellException"
    ELSE rpc.exc # "QueryCancelledByShellException"

C10_Witness ==
  /\ FailedWhileCancelled /\ IsHS2
  /\ rpc.fail.kind = "TApplicationException"
  /\ rpc.retry_on_error /\ rpc.num_tries < rpc.max_tries
  /\ rpc.exc = "QueryCancelledByShellException"

\* An attempt of the current call failed with a TApplicationException while
\* the cancel flag did not suppress it.
ApplicationFailure ==
  /\ rpc.fail.kind = "TApplicationException"
  /\ ~(rpc.suppress /\ rpc.fail.cancelled)

\* C11: an application-level protocol failure ends the call at that attempt,
\* even when the call is idempotent and attempts remain: no further attempt
\* and no sleep follows it, and the call raises MissingThriftMethodException
\* for 'unknown method' and an application RPCException otherwise.
C11_ApplicationFailureNeverRetried ==
  ApplicationFailure =>
    /\ rpc.state = "raised" /\ rpc.fail.then = "raise"
    /\ rpc.attempts = rpc.num_tries
    /\ rpc.sleep = NoSleep
    /\ rpc.exc = IF rpc.fail.detail = "UNKNOWN_METHOD"
                 THEN "MissingThriftMethodException"
                 ELSE IF IsHS2 THEN "RPCException(TAPPLICATION_EXCEPTION)"
                 ELSE "RPCException"

C11_Witness ==
  /\ ApplicationFailure /\ IsHS2
  /\ rpc.retry_on_error /\ rpc.max_tries = MaxConnectTries
  /\ rpc.attempts = 2 /\ rpc.num_tries = 2
  /\ rpc.fail.detail = "UNKNOWN_METHOD"
  /\ rpc.exc = "MissingThriftMethodException"

\* The failures _do_hs2_rpc retries.
RetryableKinds ==
  {"TTransportException", "TTransportException(socket.error)", "HttpError", "Exception"}

\* An idempotent call ended with a retryable failure: every attempt of it
\* failed with one.
IdempotentCallGaveUp ==
  /\ rpc.state = "raised" /\ rpc.live /\ rpc.retry_on_error
  /\ rpc.fail.kind \in RetryableKinds

\* C12 as stated: an idempotent call whose attempts all fail with a retryable
\* failure finally raises Disconnected, whatever the class of the failure.
C12_RetryableSurfacesDisconnected ==
  IdempotentCallGaveUp => rpc.exc = "DisconnectedException"

\* C12 as amended: after max_tries attempts the call raises Disconnected only
\* for a plain transport failure; a wrapped socket error, an HTTP error and
\* any other exception of the last attempt are raised as they are.
C12_RetryableSurfacesByClass ==
  IdempotentCallGaveUp =>
    /\ rpc.attempts = rpc.max_tries /\ rpc.max_tries = max_tries
    /\ rpc.exc = CASE rpc.fail.kind = "TTransportException" -> "DisconnectedException"
                   [] rpc.fail.kind = "TTransportException(socket.error)" -> "socket.error"
                   [] OTHER -> rpc.fail.kind

C12_Witness ==
  /\ IdempotentCallGaveUp /\ use_http_base_transport
  /\ rpc.attempts = MaxConnectTries
  /\ rpc.fail.kind = "HttpError" /\ rpc.exc = "HttpError"

\* A step of a cancel_query call: its entry, one of its RPC attempts, or the
\* whole of a call that returns at once.
CancelStep ==
  \/ op.name = "cancel_query"
  \/ op'.name = "cancel_query"
  \/ IdleNow /\ last'.op = "cancel_query"

\* C13: cancel(handle) on a handle whose closed flag is true returns true
\* without any RPC attempt, and no step of a cancel call changes the closed
\* flag of any handle.
C13_CancelClosedHandle ==
  /\ []((last.op = "cancel_query" /\ last.was_closed) =>
          (last.out = "return" /\ last.val = "True" /\ last.attempts = 0))
  /\ []((op.name = "cancel_query" /\ rpc.state = "running") =>
          ~handles[op.h].is_closed)
  /\ [][CancelStep =>
          \A h \in HandleIds : handles'[h].is_closed = handles[h].is_closed]_vars

C13_Witness ==
  /\ IdleNow /\ last.op = "cancel_query" /\ last.was_closed
  /\ handles[last.h].is_closed
  /\ last.val = "True" /\ last.attempts = 0

\* Operation name of client c tests is_closed before it dispatches.
ChecksClosed(c, name) ==
  \/ name \in {"close_query", "cancel_query"}
  \/ name = "close_dml" /\ c = "StrictHS2Client"

CloseOrCancel == {"close_query", "close_dml", "cancel_query"}

\* C15 as stated: once a handle's closed flag is true, no later close,
\* closeDml or cancel call on it sends a close or cancel RPC.
C15_NoRpcOnceClosed ==
  /\ (last.op \in CloseOrCancel /\ last.was_closed) => last.attempts = 0
  /\ (op.name \in CloseOrCancel /\ rpc.state = "running") => ~handles[op.h].is_closed

\* C15 as amended: so it is for close and cancel, and for closeDml of the
\* strict HS2 client; closeDml of the Impala HS2 client and of the Beeswax
\* client does not test the flag and sends its close RPC for a closed handle
\* too.
C15_NoRpcOnceClosedWhereChecked ==
  /\ (ChecksClosed(client, last.op) /\ last.was_closed) =>
       (last.out = "return" /\ last.attempts = 0)
  /\ (ChecksClosed(client, op.name) /\ rpc.state = "running") =>
       ~handles[op.h].is_closed
  /\ (last.op = "close_dml" /\ ~ChecksClosed(client, "close_dml") /\ last.was_closed
        /\ connected) => last.attempts = 1

C15_Witness ==
  /\ IdleNow /\ client = "StrictHS2Client"
  /\ last.op = "close_dml" /\ last.was_closed /\ last.attempts = 0
  /\ last.val = "(None, None, None)"

\* C14: a handle's closed flag is false when execute_query returns the
\* handle, and no step of any operation on handles (poll, wait, fetch,
\* cancel, close, close_dml, log, profile, summary) makes it false again once
\* it is true.
C14_ClosedMonotonic ==
  /\ [][\A h \in HandleIds : handles[h].is_closed => handles'[h].is_closed]_vars
  /\ [][\A h \in HandleIds :
          (~handles[h].made /\ handles'[h].made) => ~handles'[h].is_closed]_vars
  /\ [](\A h \in HandleIds : handles[h].is_closed => handles[h].made)

C14_Witness ==
  /\ IdleNow
  /\ last.op \in {"wait_to_finish", "get_summary", "fetch"} /\ last.attempts > 0
  /\ handles[last.h].is_closed

\* wait_to_finish has ended and its last poll reported ERROR_STATE or
\* CANCELED_STATE.
WaitSawFailure ==
  /\ IdleNow /\ last.op = "wait_to_finish"
  /\ wait.state \in {"ERROR_STATE", "CANCELED_STATE"}

\* get_error_log of wait_to_finish got the log: without an RPC (strict HS2
\* client), or from an RPC that returned (with a non-error status, HS2).
WaitGotLog ==
  \/ client = "StrictHS2Client"
  \/ /\ rpc.name \in {"GetLog", "get_log"} /\ rpc.state = "returned"
     /\ IsHS2 => is_hs2_nonerror_status(rpc.resp)

\* C18 as stated: wait returns normally only when a poll reports Finished;
\* when a poll reports Error or Cancelled it raises QueryStateException with
\* the error log if the client is connected, and Disconnected otherwise.
C18_WaitEndsByState ==
  /\ (IdleNow /\ last.op = "wait_to_finish" /\ last.out = "return")
       => wait.state = "FINISHED_STATE"
  /\ WaitSawFailure =>
       /\ last.out = "raise"
       /\ last.val = IF connected THEN "QueryStateException(log)"
                     ELSE "DisconnectedException"

\* C18 as amended: wait returns normally only when a poll reports Finished;
\* when a poll reports Error or Cancelled (the client is connected then) it
\* fetches the error log and raises QueryStateException with it if it gets
\* the log, and otherwise raises what the RPC of the log raised: the error
\* of the dispatcher, or that of the status check of the response (which
\* depends on the cancel flag at that moment: set if it was set at the last
\* poll, not set if it is not set now).
C18_WaitEndsByStateAndLog ==
  /\ (IdleNow /\ last.op = "wait_to_finish" /\ last.out = "return")
       => wait.state = "FINISHED_STATE"
  /\ WaitSawFailure =>
       /\ last.out = "raise" /\ connected
       /\ CASE WaitGotLog -> last.val = "QueryStateException(log)"
            [] rpc.state = "raised" -> last.val = rpc.exc
            [] OTHER -> \E c \in BOOLEAN :
                 /\ wait.cancelled => c
                 /\ c => is_query_cancelled
                 /\ last.val = check_hs2_rpc_status(rpc.resp, c)

C18_Witness ==
  /\ WaitSawFailure /\ wait.state = "ERROR_STATE" /\ wait.polls = 2
  /\ client = "ImpalaHS2Client" /\ rpc.name = "GetLog" /\ rpc.state = "returned"
  /\ last.val = "QueryStateException(log)"

\* C19: when the cancel flag is set and wait then sees the query in the
\* Cancelled (or Error) state, wait raises the Cancelled signal
\* (QueryCancelledByShellException), not QueryStateException.
C19_WaitReportsCancel ==
  (WaitSawFailure /\ wait.cancelled) =>
    (last.out = "raise" /\ last.val = "QueryCancelledByShellException")

\* The sleep wait_to_finish should make after a poll that took rpc_time when
\* the loop has run for elapsed, in tenths of a second.
PollSleep(elapsed, rpc_time) ==
  LET target == CASE elapsed < 100 -> 1
                  [] elapsed >= 100 /\ elapsed < 600 -> 5
                  [] OTHER -> 10
  IN  IF target - rpc_time > 0 THEN target - rpc_time ELSE 0

\* C20: the sleep after a poll that does not end the loop is
\* max(0, target - rpc_time): target is 0.1 s while less than 10 s have passed
\* since the loop started, 0.5 s from 10 s to less than 60 s, 1.0 s from 60 s.
C20_PollSleep ==
  wait.timed => wait.slept = PollSleep(wait.elapsed, wait.rpc_time)

C20_Witness ==
  /\ op.name = "wait_to_finish" /\ wait.timed
  /\ wait.elapsed = 100 /\ wait.rpc_time = 1 /\ wait.slept = 4

\* C16: on the HS2 clients, whenever no public operation is in progress (after
\* any sequence of connect, is_connected, close_connection and query
\* operations, failed ones included), the session handle is set exactly when
\* the client is connected.
C16_SessionIffConnected ==
  (IsHS2 /\ IdleNow) => (session_handle <=> connected)

\* connect opened a session, failed after that, and closed it again.
C16_Witness ==
  /\ IsHS2 /\ IdleNow /\ last.op = "connect" /\ last.out = "raise"
  /\ rpc.name = "CloseSession" /\ rpc.attempts = 1
  /\ ~session_handle /\ ~connected

\* C17: close_connection never raises because of the CloseSession RPC,
\* whatever that RPC does; when it ends the transport is closed, the session
\* handle is cleared and the client is not connected.
C17_CloseConnectionNeverRaises ==
  (IdleNow /\ last.op = "close_connection") =>
    (last.out = "return" /\ ~session_handle /\ ~connected)

\* CloseSession failed in the transport and close_connection ended.
C17_Witness ==
  /\ IdleNow /\ last.op = "close_connection"
  /\ rpc.name = "CloseSession" /\ rpc.state = "raised" /\ rpc.attempts = 1

\* Bit i (from 0) of a null bitmap, least-significant bit first within each
\* byte; indices beyond the bitmap have no bit.
NullBit(nulls, i) ==
  i < 8 * Len(nulls) /\ (nulls[(i \div 8) + 1] \div 2 ^ (i % 8)) % 2 = 1

Transposed == calc.name = "transpose" /\ calc.done /\ calc.result.raised = "none"

\* C21: _transpose gives one row per value of the first column, and the cell
\* of column c in row i is "NULL" if i is inside the null bitmap of c and bit
\* i is set, and otherwise the value of c at i, passed through the converter
\* when c has one; bits [1,0,1] with values [A,B,C] give ["NULL", B, "NULL"].
C21_NullBitmapDecoding ==
  /\ Transposed =>
       /\ Len(calc.result.rows) = Len(calc.args[1].values)
       /\ \A r \in 1..Len(calc.result.rows) : \A c \in 1..Len(calc.args) :
            calc.result.rows[r][c] =
              IF NullBit(calc.args[c].nulls, r - 1) THEN "NULL"
              ELSE IF calc.args[c].converter THEN stringifier(calc.args[c].values[r])
              ELSE calc.args[c].values[r]
  /\ (Transposed /\ calc.args = <<Column(3, <<5>>, FALSE)>>) =>
       calc.result = [raised |-> "none", rows |-> <<(<<"NULL">>), (<<"B">>), (<<"NULL">>)>>]

\* A column of nine rows with a bitmap of one byte: row 0 is NULL, row 8, beyond
\* the bitmap, is not.
C21_Witness ==
  /\ Transposed /\ calc.args = <<Column(9, <<255>>, TRUE)>>
  /\ calc.result.rows[1][1] = "NULL" /\ calc.result.rows[9][1] = "c"

\* C22: a 16-byte identifier b0..b15 is rendered as the hex digits of
\* b7 b6 ... b0, a colon, and the hex digits of b15 b14 ... b8; the bytes
\* 00 01 ... 0f give "0706050403020100:0f0e0d0c0b0a0908".
C22_IdentifierFormat ==
  (calc.name = "convert_id_to_str" /\ calc.done) =>
    /\ calc.result = hex([k \in 1..8 |-> calc.args[9 - k]]) \o ":"
                        \o hex([k \in 1..8 |-> calc.args[17 - k]])
    /\ calc.args = [i \in 1..16 |-> i - 1]
         => calc.result = "0706050403020100:0f0e0d0c0b0a0908"

C22_Witness ==
  /\ calc.name = "convert_id_to_str" /\ calc.done
  /\ calc.args = [i \in 1..16 |-> i - 1]
  /\ calc.result = "0706050403020100:0f0e0d0c0b0a0908"

\* The highest-priority configured mode in the order LDAP > JWT > OAuth >
\* Kerberos > none.
AuthPriority(a) ==
  CASE a.use_ldap -> "LDAP"
    [] a.jwt -> "JWT"
    [] a.oauth -> "OAUTH"
    [] a.use_kerberos \/ a.kerberos_host_fqdn = "host" -> "KERBEROS"
    [] OTHER -> "NONE"

TransportBuilt == calc.name = "build_transport" /\ calc.done

\* C23 as stated: with either kind of transport, the transport is built with
\* the highest-priority configured mode, LDAP > JWT > OAuth > Kerberos > none.
C23_AuthPriority ==
  TransportBuilt => calc.result = AuthPriority(calc.args)

\* C23 as amended: the HTTP transport is built with the highest-priority
\* configured mode, LDAP > JWT > OAuth > Kerberos > none; the socket transport
\* ignores the JWT and OAuth tokens and kerberos_host_fqdn as a mode, and is
\* built with Kerberos if use_kerberos is set, else LDAP if use_ldap is set,
\* else none.
C23_AuthPriorityByTransport ==
  TransportBuilt =>
    calc.result =
      IF use_http_base_transport THEN AuthPriority(calc.args)
      ELSE IF calc.args.use_kerberos THEN "KERBEROS"
      ELSE IF calc.args.use_ldap THEN "LDAP"
      ELSE "NONE"

\* A socket transport with LDAP and Kerberos both configured.
C23_Witness ==
  /\ TransportBuilt /\ ~use_http_base_transport
  /\ calc.args.use_ldap /\ calc.args.use_kerberos
  /\ calc.result = "KERBEROS"

\* connect has ended after the server rejected the listing of the query
\* options: an unknown method, an error status of the metadata or fetch
\* response, or a failed ExecuteStatement.
ListingRejected ==
  /\ IdleNow /\ IsHS2 /\ last.op = "connect"
  /\ last.listing.state = "rejected"
  /\ last.listing.exc \in {"MissingThriftMethodException", "RPCException(SERVER_ERROR)",
                            "QueryStateException"}

\* C24 as stated: when the server rejects the "set all" listing (unknown
\* method, server error status, failed initial execute), opening the session
\* on an HS2 client still succeeds.
C24_ListingTolerated ==
  ListingRejected => (last.out = "return" /\ connected)

\* C24 as amended: the strict HS2 client never runs the listing, and so
\* opens its session whether the server supports it or not; on the Impala HS2
\* client a listing rejected in one of these ways ends connect by an
\* exception, with the client disconnected and no session.
C24_ListingRejectedFailsConnect ==
  /\ (IdleNow /\ last.op = "connect" /\ client # "ImpalaHS2Client")
       => last.listing.state = "none"
  /\ ListingRejected => (last.out = "raise" /\ ~connected /\ ~session_handle)

\* ExecuteStatement of "set all" met an unknown method on the first try.
C24_Witness ==
  /\ ListingRejected /\ last.listing.rpc = "ExecuteStatement"
  /\ last.listing.exc = "MissingThriftMethodException" /\ last.listing.tries = 1
  /\ last.out = "raise" /\ last.val = "MissingThriftMethodException"

\* C27: connect first closes the previous connection (the CloseSession RPC
\* is its first call when there is a session); when it raises, whatever step
\* failed, the client is disconnected and has no session; when it returns,
\* the client is connected.
C27_ConnectAllOrNothing ==
  /\ [](IdleNow /\ last.op = "connect" /\ last.out = "raise"
         => ~connected /\ ~session_handle)
  /\ [](IdleNow /\ last.op = "connect" /\ last.out = "return" => connected)
  /\ [][(IdleNow /\ op'.name = "connect")
          => IF IsHS2 /\ session_handle
             THEN op'.phase = "close_old" /\ rpc'.name = "CloseSession"
             ELSE op'.phase = "transport" /\ ~connected' /\ ~session_handle']_vars

\* connect on a connected client failed at the ping, after the session was
\* opened and the options were listed.
C27_Witness ==
  /\ IdleNow /\ last.op = "connect" /\ last.out = "raise"
  /\ last.listing.state = "listed" /\ ~connected /\ ~session_handle

\* get_query_state has ended and the client could not talk to the server:
\* it was disconnected (no attempt was made), or the last attempt failed in
\* the transport.
PollCouldNotCommunicate ==
  /\ IdleNow /\ last.op = "get_query_state"
  /\ \/ rpc.state = "raised" /\ rpc.attempts = 0
     \/ rpc.fail.kind \in {"TTransportException", "TTransportException(socket.error)",
                            "HttpError"}

\* C25: get_query_state returns ERROR_STATE, and does not raise, whenever
\* there is an error communicating with the server or the client is
\* disconnected.
C25_PollReturnsErrorState ==
  PollCouldNotCommunicate => (last.out = "return" /\ last.val = "ERROR_STATE")

\* close_dml has ended.
CloseDmlEnded == IdleNow /\ last.op = "close_dml"

\* The RPC of the close_dml that has ended returned a response with an error
\* status.
CloseDmlErrorStatus ==
  /\ CloseDmlEnded /\ rpc.state = "returned"
  /\ IsHS2 /\ check_hs2_rpc_status(rpc.resp, FALSE) # "ok"

\* C26 as stated: close_dml sets the closed flag only when it succeeds; when
\* the response has no DML statistics it raises RPCException, and then, and
\* when the response has an error status or the transport fails, the flag
\* keeps the value it had before the call.
C26_ClosedOnlyOnSuccess ==
  /\ (CloseDmlEnded /\ last.out = "raise")
       => handles[last.h].is_closed = last.was_closed
  /\ CloseDmlErrorStatus
       => (last.out = "raise" /\ handles[last.h].is_closed = last.was_closed)

\* C26 as amended: close_dml leaves the closed flag as it was when it raises
\* and sets it when it returns; the Impala HS2 client raises on an error
\* status and, when the status is good, returns the DML statistics or raises
\* RPCException for want of them; the strict HS2 client, which closes the
\* query instead, returns and sets the flag whatever status the response has.
C26_ClosedWhenReturned ==
  /\ (CloseDmlEnded /\ last.out = "raise")
       => handles[last.h].is_closed = last.was_closed
  /\ (CloseDmlEnded /\ last.out = "return") => handles[last.h].is_closed
  /\ (CloseDmlErrorStatus /\ client = "ImpalaHS2Client") => last.out = "raise"
  /\ (CloseDmlEnded /\ rpc.state = "returned" /\ client = "StrictHS2Client")
       => (last.out = "return" /\ handles[last.h].is_closed)
  /\ (CloseDmlEnded /\ rpc.state = "returned" /\ client = "ImpalaHS2Client"
        /\ ~CloseDmlErrorStatus)
       => \/ last.out = "return" /\ last.val = "dml_result"
          \/ last.out = "raise" /\ last.val = "RPCException"

\* The response of the Impala HS2 client had a good status and no DML
\* statistics: RPCException, and the handle stays open.
C26_Witness ==
  /\ CloseDmlEnded /\ client = "ImpalaHS2Client"
  /\ rpc.state = "returned" /\ rpc.resp = "SUCCESS_STATUS"
  /\ last.out = "raise" /\ last.val = "RPCException"
  /\ ~handles[last.h].is_closed

\* close_query or cancel_query has ended after its RPC was attempted.
CloseOrCancelTried ==
  /\ IdleNow /\ last.op \in {"close_query", "cancel_query"} /\ rpc.attempts > 0

\* The last attempt of the RPC failed in the application, not the transport.
RpcFailedInApplication ==
  rpc.state = "raised" /\ rpc.fail.kind = "TApplicationException"

\* C28 as stated: close_query and cancel_query return False whenever their
\* RPC ends in an error status or in an application-level failure, and raise
\* only on a failure of the transport.
C28_FailuresReturnFalse ==
  /\ (CloseOrCancelTried /\ rpc.state = "returned" /\ rpc.resp \in ErrorStatuses)
       => (last.out = "return" /\ last.val = "False")
  /\ (CloseOrCancelTried /\ RpcFailedInApplication)
       => (last.out = "return" /\ last.val = "False")

\* C28 as amended: close_query and cancel_query return a boolean exactly when
\* their RPC returns a response, False if its status is an error and True if
\* not; every failure raised by the RPC, an application-level one as much as
\* one of the transport, is raised by the call.
C28_StatusReturnedFailuresRaised ==
  /\ (CloseOrCancelTried /\ rpc.state = "returned")
       => (last.out = "return" /\ last.val = Bool(rpc.resp \notin ErrorStatuses))
  /\ (CloseOrCancelTried /\ rpc.state = "raised")
       => (last.out = "raise" /\ last.val = rpc.exc)
  /\ (CloseOrCancelTried /\ RpcFailedInApplication /\ ~rpc.fail.cancelled)
       => last.val \in {"MissingThriftMethodException",
                         "RPCException(TAPPLICATION_EXCEPTION)", "RPCException"}

\* cancel_query met a TApplicationException and raised the RPC error.
C28_Witness ==
  /\ CloseOrCancelTried /\ last.op = "cancel_query" /\ IsHS2
  /\ RpcFailedInApplication /\ rpc.fail.detail = "INTERNAL_ERROR"
  /\ last.out = "raise" /\ last.val = "RPCException(TAPPLICATION_EXCEPTION)"

\* The close flag and the schema of every handle are the same after the step.
HandlesKeepClosedAndSchema ==
  \A h \in HandleIds :
    /\ handles'[h].is_closed = handles[h].is_closed
    /\ handles'[h].schema = handles[h].schema

\* C29: abandoning the fetch sequence of a handle, after any number of
\* batches, sends no RPC and leaves the closed flag and the schema of the
\* handle as they were; no step of fetch changes them either; and
\* close_query does on the handle what it does after a sequence that was
\* consumed to its end.
C29_AbandonedFetch ==
  /\ [](IdleNow /\ last.op = "fetch_close"
          => rpc = NoRpc /\ last.attempts = 0 /\ last.out = "return")
  /\ [][(op'.name = "fetch" \/ op.name = "fetch" \/ last'.op = "fetch_close")
          => HandlesKeepClosedAndSchema]_vars
  /\ [][(IdleNow /\ op'.name = "close_query" /\ handles[op'.h].gen = "closed")
          => LET h == op'.h
                 consumed == close_query_begin([M EXCEPT !.handles[h].gen = "done"], h)
             IN  /\ rpc' = consumed.rpc
                 /\ op' = consumed.op
                 /\ handles'[h].is_closed = consumed.handles[h].is_closed
                 /\ rpc'.state = "running" <=> (connected /\ ~handles[h].is_closed)]_vars

\* The sequence was abandoned after one batch while the server had more
\* rows, and the close RPC of the handle is under way.
C29_Witness ==
  /\ op.name = "close_query" /\ rpc.state = "running"
  /\ handles[op.h].gen = "closed" /\ Len(handles[op.h].yielded) = 1
  /\ handles[op.h].ind /\ ~handles[op.h].is_closed

\* execute_query of an HS2 client has ended.
SubmitEnded == IdleNow /\ IsHS2 /\ last.op = "execute_query"

\* C30: execute_query of the HS2 clients raises QueryStateException, and
\* sends no GetResultSetMetadata, when the status of the ExecuteStatement
\* response is not SUCCESS_STATUS; otherwise it sends GetResultSetMetadata if
\* and only if the handle has a result set; every handle it returns is not
\* closed and, when it has a result set, has its schema.
C30_SubmitMetadata ==
  /\ (SubmitEnded /\ rpc.name = "ExecuteStatement" /\ rpc.state = "returned"
        /\ rpc.resp # "SUCCESS_STATUS")
       => (last.out = "raise" /\ last.val = "QueryStateException" /\ last.aux = 0)
  /\ (IsHS2 /\ op.name = "execute_query" /\ op.phase = "metadata")
       => /\ op.exec.status = "SUCCESS_STATUS" /\ op.exec.hasResultSet
          /\ rpc.name = "GetResultSetMetadata"
  /\ (SubmitEnded /\ rpc.name = "ExecuteStatement" /\ rpc.state = "returned"
        /\ rpc.resp = "SUCCESS_STATUS")
       => (last.out = "return" /\ ~handles[last.h].hasResultSet /\ last.aux = 0)
  /\ (SubmitEnded /\ last.out = "return")
       => /\ handles[last.h].made /\ ~handles[last.h].is_closed
          /\ handles[last.h].hasResultSet
               <=> (rpc.name = "GetResultSetMetadata" /\ last.aux > 0)
          /\ handles[last.h].hasResultSet => handles[last.h].schema

\* A handle with a result set came back with its schema, after one
\* GetResultSetMetadata RPC.
C30_Witness ==
  /\ SubmitEnded /\ last.out = "return" /\ last.aux = 1
  /\ rpc.name = "GetResultSetMetadata"
  /\ handles[last.h].hasResultSet /\ handles[last.h].schema
  /\ ~handles[last.h].is_closed

\* The retry loop slept before another attempt.
SleptBeforeRetry == rpc.sleep.before > 1

\* C31: when the failed attempt carried a Retry-After duration (any integer
\* the server may send, 0 included), the sleep before the next attempt is
\* that duration; a failure without one is followed by the computed backoff,
\* whatever the failures before it carried.
C31_RetryAfterIsNextSleep ==
  SleptBeforeRetry =>
    IF parse_int(rpc.sleep.hdr) >= 0
    THEN rpc.sleep.secs = parse_int(rpc.sleep.hdr)
    ELSE rpc.sleep.secs = get_sleep_interval_for_retries(rpc.sleep.before - 1)

\* The step in which an RPC of the rich protocol returns a response and the
\* client checks the status in it with _check_hs2_rpc_status: the poll of
\* get_query_state and the metadata call of execute_query.
StatusCheckStep ==
  /\ IsHS2 /\ rpc.state = "running" /\ rpc'.state = "returned"
  /\ \/ op.name = "get_query_state"
     \/ op.name = "execute_query" /\ op.phase = "metadata"

\* C33: when the response of an RPC carries an error status or an
\* invalid-handle status, the status check raises the Cancelled signal if
\* the cancel flag is set at that moment, and otherwise RPCException for the
\* error status and QueryStateException for the invalid handle; with a
\* non-error status the operation returns whether or not the flag is set.
C33_StatusCheckUnderCancel ==
  [][StatusCheckStep =>
       /\ op'.name = "idle"
       /\ last'.out = (IF rpc'.resp \in {"ERROR_STATUS", "INVALID_HANDLE_STATUS"}
                       THEN "raise" ELSE "return")
       /\ last'.out = "raise" =>
            last'.val = CASE is_query_cancelled -> "QueryCancelledByShellException"
                          [] rpc'.resp = "ERROR_STATUS" -> "RPCException(SERVER_ERROR)"
                          [] OTHER -> "QueryStateException"]_vars

C33_Witness ==
  /\ IsHS2 /\ last.op = "get_query_state" /\ last.resp = "INVALID_HANDLE_STATUS"
  /\ last.out = "raise" /\ last.val = "QueryCancelledByShellException"

\* The last call handed to a dispatcher found the connected flag false.
DispatchedDisconnected ==
  rpc.name \notin RawCalls \cup {"none"} /\ rpc.state = "raised" /\ ~rpc.live

\* C35: a call dispatched while the connected flag is false makes no network
\* attempt and the operation raises DisconnectedException, with either
\* dispatcher and whether or not the call is idempotent; no attempt of a
\* dispatched call is ever due while the flag is false.
C35_DisconnectedBeforeAnyAttempt ==
  /\ (rpc.state = "running" /\ rpc.name \notin RawCalls) => connected
  /\ DispatchedDisconnected =>
       /\ rpc.attempts = 0 /\ rpc.exc = "DisconnectedException"
       /\ IdleNow /\ last.out = "raise" /\ last.val = "DisconnectedException"

C35_Witness ==
  /\ DispatchedDisconnected /\ ~connected /\ last.op = "close_dml"
  /\ last.out = "raise" /\ last.val = "DisconnectedException" /\ last.attempts = 0

\* A fetch-next RPC of a fetch sequence of the rich-protocol client is about
\* to be sent.
FetchNextDue ==
  IsHS2 /\ op.name = "fetch" /\ rpc.name = "FetchResults" /\ rpc.state = "running"

\* C36: whenever a fetch-next RPC of fetch(h) is sent, the connection-scoped
\* current query handle is h, whatever operations the caller ran on the
\* client between two batches.
C36_FetchAttributed == FetchNextDue => current_query_handle = op.h

\* A call was handed to the dispatcher of the rich protocol and passed its
\* connection check.
Dispatched == IsHS2 /\ rpc.live /\ rpc.name \notin RawCalls

\* C37: one invocation of the dispatcher makes at most maxTries attempts,
\* and one when the call is not idempotent; while it runs, the next attempt
\* is within that bound, so that the loop never runs out without a result;
\* it ends by returning the response of its last attempt, which is the
\* successful one, or by raising.
C37_AttemptsBoundedAndEnds ==
  Dispatched =>
    /\ rpc.max_tries = (IF rpc.retry_on_error THEN max_tries ELSE 1)
    /\ rpc.attempts <= rpc.max_tries
    /\ rpc.state \in {"running", "returned", "raised"}
    /\ rpc.state = "running" =>
         rpc.num_tries <= rpc.max_tries /\ rpc.attempts = rpc.num_tries - 1
    /\ rpc.state = "returned" =>
         rpc.resp \in StatusCodes /\ rpc.attempts = rpc.num_tries /\ rpc.exc = "none"
    /\ rpc.state = "raised" => rpc.exc # "none" /\ rpc.resp = "none"

\* C37, second part: a dispatcher invocation that has ended makes no further
\* attempt; its frame stays as it is until another call is dispatched.
C37_NoAttemptAfterEnd ==
  [][(Dispatched /\ rpc.state \in {"returned", "raised"}) =>
       (rpc' = rpc \/ rpc'.attempts = 0)]_vars

\* C37: for every maxTries >= 1 and every pattern of outcomes, a dispatcher
\* invocation makes at most maxTries attempts (one when not idempotent), none
\* after a successful one, and ends by returning that attempt's response or
\* by raising.
C37_AtMostMaxTriesThenEnds ==
  []C37_AttemptsBoundedAndEnds /\ C37_NoAttemptAfterEnd

C37_Witness ==
  /\ Dispatched /\ max_tries = MaxConnectTries /\ rpc.attempts = MaxConnectTries
  /\ rpc.state = "returned" /\ rpc.resp = "SUCCESS_STATUS" /\ rpc.fail = NoFail

\* The step in which the caller enters execute_query and its RPC becomes due.
SubmitBegins == IdleNow /\ op'.name = "execute_query"

\* The step in which the option bootstrap of connect enters execute_query
\* for its "set all" statement.
BootstrapSubmits ==
  /\ op'.name = "connect" /\ op'.phase = "set_all"
  /\ rpc'.name = "ExecuteStatement" /\ rpc'.attempts = 0
  /\ op.phase # "set_all" \/ op.tries # op'.tries

\* The signal handler sets the flag and nothing else happens.
FlagSetFromOutside ==
  /\ ~is_query_cancelled /\ is_query_cancelled'
  /\ UNCHANGED <<config, connected, session_handle, current_query_handle,
                 handles, op, rpc, last, prev, wait, default_query_options,
                 request_num, current_request_id, calc>>

\* The step ends an operation by the Cancelled signal.
EndsCancelled ==
  ~IdleNow /\ op'.name = "idle" /\ last'.val = "QueryCancelledByShellException"

\* C39 as stated: execute_query clears the cancel flag before its RPC is
\* sent, an operation ends by the Cancelled signal only when the flag is set
\* at that moment, and the flag changes in no operation other than
\* execute_query (and by the signal handler, which sets it).
C39_FlagChangedBySubmitOnly ==
  [][/\ SubmitBegins => ~is_query_cancelled'
     /\ EndsCancelled => is_query_cancelled
     /\ is_query_cancelled' # is_query_cancelled =>
          \/ FlagSetFromOutside
          \/ IdleNow /\ ~is_query_cancelled'
               /\ (op'.name = "execute_query" \/ last'.op = "execute_query")]_vars

\* C39 as amended: as above, but connect changes the flag too: the option
\* bootstrap of the rich-protocol client runs execute_query, which clears it.
C39_FlagClearedWhereSubmitRuns ==
  [][/\ SubmitBegins => ~is_query_cancelled'
     /\ BootstrapSubmits => ~is_query_cancelled'
     /\ EndsCancelled => is_query_cancelled
     /\ is_query_cancelled' # is_query_cancelled =>
          \/ FlagSetFromOutside
          \/ IdleNow /\ ~is_query_cancelled'
               /\ (op'.name = "execute_query" \/ last'.op = "execute_query")
          \/ BootstrapSubmits /\ client = "ImpalaHS2Client"
               /\ ~is_query_cancelled']_vars

C39_Witness ==
  /\ op.name = "execute_query" /\ op.was_cancelled /\ ~is_query_cancelled
  /\ rpc.state = "running" /\ rpc.attempts = 0

\* wait_to_finish is in progress / was the last operation and has ended.
Waiting == op.name = "wait_to_finish"
Waited == IdleNow /\ last.op = "wait_to_finish"

\* The query states that end the loop of wait_to_finish.
TerminalStates == {"FINISHED_STATE", "ERROR_STATE", "CANCELED_STATE"}

\* The polls of the current wait_to_finish that reported a state that does
\* not end the loop (a poll that raises is not counted in wait.polls).
NonTerminalPolls ==
  IF wait.state \in TerminalStates THEN wait.polls - 1 ELSE wait.polls

\* The loop of wait_to_finish, between its polls: while wait polls, no poll
\* has reported a terminal state; after Error or Cancelled only the RPC of
\* the error log is left; in the callback and in the sleep after it the last
\* poll was not terminal; the callback has been called once for each
\* non-terminal poll and never after a terminal one (never at all when there
\* is none).
C40_WaitLoop ==
  /\ (Waiting \/ Waited) =>
       wait.ticks = (IF wait.callback # "none" THEN NonTerminalPolls ELSE 0)
  /\ (Waiting /\ op.phase = "main") =>
       /\ wait.state \notin TerminalStates
       /\ rpc.name \in {"GetOperationStatus", "get_state"} /\ rpc.state = "running"
  /\ (Waiting /\ op.phase = "log") =>
       /\ wait.state \in {"ERROR_STATE", "CANCELED_STATE"}
       /\ rpc.name \in {"GetLog", "get_log"} /\ rpc.state = "running"
  /\ (Waiting /\ op.phase \in {"callback", "sleep"}) =>
       /\ wait.state \notin TerminalStates /\ wait.polls > 0
       /\ rpc.state # "running"
       /\ op.phase = "callback" => wait.callback # "none"
  /\ Waiting => op.phase \in {"main", "log", "callback", "sleep"}

\* wait ended although no poll reported a terminal state: a poll raised.
C40_EndedByPoll ==
  (Waited /\ wait.state \notin TerminalStates) =>
    /\ last.out = "raise"
    /\ rpc.name \in {"GetOperationStatus", "get_state"}
    /\ rpc.state = "raised" => last.val = rpc.exc

\* wait ended although no poll reported a terminal state: a poll raised, or
\* the call of get_summary in the callback did.
C40_EndedByPollOrCallback ==
  (Waited /\ wait.state \notin TerminalStates) =>
    /\ last.out = "raise"
    /\ \/ rpc.name \in {"GetOperationStatus", "get_state"}
       \/ wait.callback = "get_summary" /\ rpc.name = "GetExecSummary" /\ wait.ticks > 0
    /\ rpc.state = "raised" => last.val = rpc.exc

\* The steps of the loop: after a terminal poll no other poll is made; a
\* poll is counted only when it is answered, and a non-terminal one is
\* followed by one call of the callback, if there is one, and then by the
\* sleep or the next poll; the callback is called at no other moment; the
\* sleep is followed by the next poll.
C40_WaitSteps ==
  /\ (Waiting /\ wait.state \in TerminalStates) =>
       /\ wait' = woken(wait)
       /\ Waiting' => (op'.phase = op.phase /\ rpc'.name = rpc.name)
  /\ (Waiting /\ wait'.polls # wait.polls) =>
       /\ op.phase = "main" /\ wait'.polls = wait.polls + 1
       /\ IF wait'.state \in TerminalStates
          THEN wait'.ticks = wait.ticks /\ (Waited' \/ op'.phase = "log")
          ELSE /\ Waiting'
               /\ IF wait.callback # "none"
                  THEN wait'.ticks = wait.ticks + 1 /\ op'.phase = "callback"
                  ELSE /\ wait'.ticks = wait.ticks
                       /\ \/ op'.phase = "sleep" /\ wait'.slept > 0
                          \/ /\ op'.phase = "main" /\ wait'.slept = 0
                             /\ rpc'.state = "running" /\ rpc'.attempts = 0
  /\ (Waiting /\ Waiting' /\ wait'.polls = wait.polls) => wait'.ticks = wait.ticks
  /\ (Waiting /\ op.phase = "sleep" /\ op' # op) =>
       \/ /\ Waiting' /\ op'.phase = "main" /\ wait'.polls = wait.polls
          /\ rpc'.state = "running" /\ rpc'.attempts = 0
       \/ Waited' /\ last'.val = "DisconnectedException"

\* C40 as stated: wait ends at the first poll that reports Finished, Error or
\* Cancelled, or raises, without polling again, and by nothing else; as long
\* as the polls report another state it keeps polling, calling the tick
\* callback exactly once after each of them and never after a terminal one.
C40_WaitEndsAtTerminalPoll ==
  [](C40_WaitLoop /\ C40_EndedByPoll) /\ [][C40_WaitSteps]_vars

\* C40, amended: wait ends at the first poll that reports Finished, Error or
\* Cancelled, or raises, without polling again, or by an exception that the
\* tick callback raises; otherwise it keeps polling, calling the callback
\* exactly once after each non-terminal poll and never after a terminal one.
C40_WaitEndsAtPollOrCallback ==
  [](C40_WaitLoop /\ C40_EndedByPollOrCallback) /\ [][C40_WaitSteps]_vars

\* wait with a callback that calls get_summary: the first poll was not
\* terminal, the callback ran once, the second poll reported Finished.
C40_Witness ==
  /\ Waited /\ wait.callback = "get_summary" /\ wait.polls = 2 /\ wait.ticks = 1
  /\ wait.state = "FINISHED_STATE" /\ last.out = "return"

\* connect has returned to its caller.
ConnectSucceeded == IdleNow /\ last.op = "connect" /\ last.out = "return"

\* C34: after each successful connect the default-option map holds exactly
\* the options the server reported during that connect, and nothing left
\* over from an earlier connection.
C34_OptionsRefreshed == ConnectSucceeded => default_query_options = last.listing.rows

\* The option bootstrap of the rich-protocol client has ended by its break:
\* inside connect, or in the connect that was the last operation.
BootstrapListed ==
  /\ client = "ImpalaHS2Client"
  /\ \/ op.name = "connect" /\ op.listing.state = "listed"
     \/ IdleNow /\ last.op = "connect" /\ last.listing.state = "listed"

\* The rows the server sent in the try of the listing that ended the
\* bootstrap.
ListedRows == IF op.name = "connect" THEN op.listing.rows ELSE last.listing.rows

\* The step in which a try of the bootstrap that failed ends, and the client
\* sleeps before the next one.
TryEnds ==
  /\ op.name = "connect" /\ op.phase # "set_all_sleep"
  /\ op'.name = "connect" /\ op'.phase = "set_all_sleep"

\* The step in which the bootstrap begins another whole try.
NextTryBegins ==
  op.name = "connect" /\ op'.name = "connect" /\ op.tries >= 1 /\ op'.tries = op.tries + 1

\* C38: when the option bootstrap has ended successfully, after any number
\* of failed tries, the option map holds exactly the rows of the listing
\* fetched in the last try; and a try that obtained a query handle ends,
\* and is followed by the sleep and another try, only after the RPC that
\* closes the handle has been sent and has returned.
C38_BootstrapKeepsLastListing ==
  /\ [](BootstrapListed => default_query_options = ListedRows)
  /\ [][TryEnds =>
          \/ op.set_all = "none"
          \/ /\ op.phase = "set_all_close" /\ rpc.name = "CloseImpalaOperation"
             /\ rpc.state = "running" /\ current_query_handle = SetAllHandle]_vars
  /\ [][NextTryBegins =>
          /\ op.phase = "set_all_sleep" /\ rpc.state # "running"
          /\ op.slept = get_sleep_interval_for_retries(op.tries)
          /\ op'.phase = "set_all" /\ op'.set_all = "none"]_vars

C38_Witness ==
  /\ ConnectSucceeded /\ client = "ImpalaHS2Client"
  /\ last.listing.state = "listed" /\ last.listing.tries = 2
  /\ default_query_options = {}

\* A frame of the HS2 dispatcher: a call that was given a request id.
NumberedCall(f) == IsHS2 /\ f.name \notin RawCalls \cup {"none"}

\* This step dispatches a call: a frame that has made no attempt replaces
\* the frame of the call before.
NewCall == rpc' # rpc /\ NumberedCall(rpc') /\ rpc'.attempts = 0

\* The id of the call in hand is base-k for the current sequence number k,
\* and every attempt made for it over HTTP carried that id.
IdOfCallInHand ==
  NumberedCall(rpc) =>
    /\ request_num # Unnumbered
    /\ rpc.request_id = <<"base", request_num[1]>>
    /\ current_request_id = rpc.request_id
    /\ (rpc.attempts > 0 /\ use_http_base_transport) => rpc.sent_id = rpc.request_id

\* A dispatched call takes the sequence number after that of the call before
\* it; the attempts of a call, its retries included, leave number and id alone.
IdsInSequence ==
  IF NewCall
  THEN /\ request_num'[1] = request_num[1] + 1
       /\ rpc'.request_id = <<"base", request_num[1] + 1>>
  ELSE /\ request_num' = request_num
       /\ current_request_id' = current_request_id
       /\ NumberedCall(rpc') => rpc'.request_id = rpc.request_id

\* C32: each dispatched call gets the id base-k, k grows by exactly one per
\* call (so ids are issued in strictly increasing order and no two calls share
\* one), and all attempts of one call, retries included, carry its single id.
C32_CorrelationIds == [](client # "ImpalaBeeswaxClient" => IdOfCallInHand) /\ [][client # "ImpalaBeeswaxClient" => IdsInSequence]_vars

\* A call that was retried: its second attempt went out over HTTP with the
\* id of the call, the third call numbered since the client was connected.
C32_Witness ==
  /\ NumberedCall(rpc) /\ use_http_base_transport
  /\ rpc.attempts >= 2
  /\ request_num = <<connect_calls + 3>>
  /\ rpc.sent_id = <<"base", connect_calls + 3>>

============================================================================
